---------------------------- MODULE Spec2Model ----------------------------
(***************************************************************************)
(* Model of the sorter programs of the repository: the hybrid heap sort    *)
(* (src/src/heapsort_f.c), the hybrid quicksort (src/src/quicksort_f.c),   *)
(* the fscanf-based corpus reader (src/src/common.c) and the main          *)
(* function the two sorter programs share.                                 *)
(*                                                                         *)
(* C arrays are functions over 0..n-1, so that every index of the model is *)
(* the index of the source.                                                *)
(***************************************************************************)
EXTENDS Integers, Sequences, FiniteSets, TLC

(***************************************************************************)
(* Program constants.                                                      *)
(***************************************************************************)
INSERTION_SORT_THRESHOLD == 16

CACHE_LINE_SIZE == 64

SIZEOF_INT == 4

(***************************************************************************)
(* Bounds of the model.                                                    *)
(***************************************************************************)
\* longest array handed to a sort function
MaxLen == 36

\* the generated arrays hold values (s*i + q*i*i) % m for 1 <= m <= MaxMod
MaxMod == 7

\* largest coefficient q of the quadratic term of a generated array
MaxQuad == 1

\* number of sort calls made in a row on one array
MaxCalls == 2

(***************************************************************************)
(* Helpers on arrays.                                                      *)
(***************************************************************************)
EmptyArray == [i \in {} |-> 0]

\* the C array a[0..n) as a TLA+ sequence
ArrayToSeq(a, n) == [i \in 1..n |-> a[i - 1]]

\* number of positions of a[0..n) holding v
Occurrences(a, n, v) == Cardinality({i \in 0..(n - 1) : a[i] = v})

\* a[0..n) and b[0..n) hold the same multiset of values
SameMultiset(a, b, n) ==
    \A i \in 0..(n - 1) :
        /\ Occurrences(a, n, a[i]) = Occurrences(b, n, a[i])
        /\ Occurrences(a, n, b[i]) = Occurrences(b, n, b[i])

\* a[0..n) is in ascending order
IsSorted(a, n) == \A i \in 0..(n - 1) : \A j \in (i + 1)..(n - 1) : a[i] <= a[j]

\* The array a has its value.  It is true of every array; TLC computes an
\* operator's argument where the operator first uses it, so a loop whose
\* guard begins with Computed(a) has the array of one iteration computed
\* before the next iteration is entered, as the source does.
Computed(a) == DOMAIN a = DOMAIN a

(***************************************************************************)
(* heapsort_f.c: insertion_sort, heapify, buildMaxHeap, heapSort,          *)
(* blockHeapSort.                                                          *)
(***************************************************************************)
\* swap(&a[i], &a[j])
swap(a, i, j) == [a EXCEPT ![i] = a[j], ![j] = a[i]]

\* the while loop of insertion_sort: shift the elements greater than key
RECURSIVE hs_insertion_shift(_, _, _)
hs_insertion_shift(a, j, key) ==
    IF j >= 0 /\ a[j] > key
    THEN hs_insertion_shift([a EXCEPT ![j + 1] = a[j]], j - 1, key)
    ELSE [a EXCEPT ![j + 1] = key]

\* the for loop of insertion_sort, from index i on
RECURSIVE hs_insertion_loop(_, _, _)
hs_insertion_loop(a, n, i) ==
    IF Computed(a) /\ i < n
    THEN hs_insertion_loop(hs_insertion_shift(a, i - 1, a[i]), n, i + 1)
    ELSE a

hs_insertion_sort(a, n) == hs_insertion_loop(a, n, 1)

\* mutant of the sift-down loop: the right child is never looked at
RECURSIVE heapify_loop_left_only(_, _, _, _)
heapify_loop_left_only(a, n, i, current) ==
    LET child_idx == 2 * i + 1
    IN  IF child_idx >= n THEN [a EXCEPT ![i] = current]
        ELSE IF current >= a[child_idx] THEN [a EXCEPT ![i] = current]
        ELSE heapify_loop_left_only([a EXCEPT ![i] = a[child_idx]], n,
                                    child_idx, current)

\* mutant of the sift-down loop: the cached value is not written back
RECURSIVE heapify_loop_no_store(_, _, _, _)
heapify_loop_no_store(a, n, i, current) ==
    LET left == 2 * i + 1
    IN  IF left >= n THEN a
        ELSE LET child_idx == IF left + 1 < n /\ a[left] < a[left + 1]
                              THEN left + 1 ELSE left
             IN  IF current >= a[child_idx] THEN a
                 ELSE heapify_loop_no_store([a EXCEPT ![i] = a[child_idx]], n,
                                            child_idx, current)

\* the while (1) loop of heapify; current is the cached value being sifted
RECURSIVE heapify_loop(_, _, _, _)
heapify_loop(a, n, i, current) ==
    LET left == 2 * i + 1
    IN  IF left >= n THEN [a EXCEPT ![i] = current]
        ELSE LET child_idx == IF left + 1 < n /\ a[left] < a[left + 1]
                              THEN left + 1 ELSE left
             IN  IF current >= a[child_idx] THEN [a EXCEPT ![i] = current]
                 ELSE heapify_loop([a EXCEPT ![i] = a[child_idx]], n,
                                   child_idx, current)

heapify(a, n, i) == heapify_loop(a, n, i, a[i])

\* mutant of the loop of buildMaxHeap: the root is not sifted down
RECURSIVE buildMaxHeap_loop_skip_root(_, _, _)
buildMaxHeap_loop_skip_root(a, n, i) ==
    IF Computed(a) /\ i >= 1
    THEN buildMaxHeap_loop_skip_root(heapify(a, n, i), n, i - 1)
    ELSE a

RECURSIVE buildMaxHeap_loop(_, _, _)
buildMaxHeap_loop(a, n, i) ==
    IF Computed(a) /\ i >= 0
    THEN buildMaxHeap_loop(heapify(a, n, i), n, i - 1)
    ELSE a

\* mutant of buildMaxHeap: the last internal node is not sifted down
buildMaxHeap_skip_last_parent(a, n) == buildMaxHeap_loop(a, n, (n \div 2) - 2)

buildMaxHeap(a, n) == buildMaxHeap_loop(a, n, (n \div 2) - 1)

\* mutant of the extraction loop of heapSort: the loop is left at the
\* threshold without the insertion sort of the remaining prefix
RECURSIVE heapSort_loop_no_insertion(_, _)
heapSort_loop_no_insertion(a, i) ==
    IF Computed(a) /\ i > 0
    THEN LET s == swap(a, 0, i)
         IN  IF i <= INSERTION_SORT_THRESHOLD
             THEN s
             ELSE heapSort_loop_no_insertion(heapify(s, i, 0), i - 1)
    ELSE a

\* the extraction loop of heapSort, from index i down
RECURSIVE heapSort_loop(_, _)
heapSort_loop(a, i) ==
    IF Computed(a) /\ i > 0
    THEN LET s == swap(a, 0, i)
         IN  IF i <= INSERTION_SORT_THRESHOLD
             THEN hs_insertion_sort(s, i)
             ELSE heapSort_loop(heapify(s, i, 0), i - 1)
    ELSE a

heapSort(a, n) ==
    IF n <= INSERTION_SORT_THRESHOLD
    THEN hs_insertion_sort(a, n)
    ELSE heapSort_loop(buildMaxHeap(a, n), n - 1)

\* block_size of blockHeapSort
block_size == CACHE_LINE_SIZE \div SIZEOF_INT

\* the inner for loop of blockHeapSort: i from the block's end down to
\* block_end + 1
RECURSIVE blockHeapSort_block(_, _, _)
blockHeapSort_block(a, i, block_end) ==
    IF Computed(a) /\ i > block_end
    THEN blockHeapSort_block(heapify(swap(a, 0, i), i, 0), i - 1, block_end)
    ELSE a

\* mutant of the outer loop: the shorter last block is not processed
RECURSIVE blockHeapSort_loop_skip_last(_, _)
blockHeapSort_loop_skip_last(a, end) ==
    IF Computed(a) /\ end > block_size
    THEN blockHeapSort_loop_skip_last(
             blockHeapSort_block(a, end, end - block_size), end - block_size)
    ELSE a

\* the outer for loop of blockHeapSort
RECURSIVE blockHeapSort_loop(_, _)
blockHeapSort_loop(a, end) ==
    IF Computed(a) /\ end > 0
    THEN LET block_end == IF end > block_size THEN end - block_size ELSE 0
         IN  blockHeapSort_loop(blockHeapSort_block(a, end, block_end),
                                block_end)
    ELSE a

blockHeapSort(a, n) ==
    IF n <= INSERTION_SORT_THRESHOLD
    THEN hs_insertion_sort(a, n)
    ELSE blockHeapSort_loop(buildMaxHeap(a, n), n - 1)

\* the extraction loop of heapSort from index i down, with what it passes
\* through: the set of the arrays left by its calls heapify(a, i, 0), each
\* with its i
RECURSIVE heapSort_loop_heaps(_, _)
heapSort_loop_heaps(a, i) ==
    IF Computed(a) /\ i > INSERTION_SORT_THRESHOLD
    THEN LET h == heapify(swap(a, 0, i), i, 0)
         IN  {[a |-> h, i |-> i]} \cup heapSort_loop_heaps(h, i - 1)
    ELSE {}

\* the arrays left by the calls heapify(a, i, 0) of heapSort(a, n)
heapSort_heaps(a, n) ==
    IF n <= INSERTION_SORT_THRESHOLD
    THEN {}
    ELSE heapSort_loop_heaps(buildMaxHeap(a, n), n - 1)

\* the same for the inner loop of blockHeapSort
RECURSIVE blockHeapSort_block_heaps(_, _, _)
blockHeapSort_block_heaps(a, i, block_end) ==
    IF Computed(a) /\ i > block_end
    THEN LET h == heapify(swap(a, 0, i), i, 0)
         IN  {[a |-> h, i |-> i]}
                 \cup blockHeapSort_block_heaps(h, i - 1, block_end)
    ELSE {}

\* the same for the outer loop of blockHeapSort
RECURSIVE blockHeapSort_loop_heaps(_, _)
blockHeapSort_loop_heaps(a, end) ==
    IF Computed(a) /\ end > 0
    THEN LET block_end == IF end > block_size THEN end - block_size ELSE 0
         IN  blockHeapSort_block_heaps(a, end, block_end)
                 \cup blockHeapSort_loop_heaps(
                          blockHeapSort_block(a, end, block_end), block_end)
    ELSE {}

\* the arrays left by the calls heapify(a, i, 0) of blockHeapSort(a, n)
blockHeapSort_heaps(a, n) ==
    IF n <= INSERTION_SORT_THRESHOLD
    THEN {}
    ELSE blockHeapSort_loop_heaps(buildMaxHeap(a, n), n - 1)

(***************************************************************************)
(* main.c: the plain heap sort (heapify, buildMaxHeap, heapSort), which    *)
(* runs the extraction loop down to index 0.                               *)
(***************************************************************************)
\* the recursive heapify of main.c
RECURSIVE main_heapify(_, _, _)
main_heapify(a, n, i) ==
    LET left     == 2 * i + 1
        right    == 2 * i + 2
        largest1 == IF left < n /\ a[i] < a[left] THEN left ELSE i
        largest  == IF right < n /\ a[largest1] < a[right]
                    THEN right ELSE largest1
    IN  IF largest # i
        THEN main_heapify(swap(a, i, largest), n, largest)
        ELSE a

RECURSIVE main_buildMaxHeap_loop(_, _, _)
main_buildMaxHeap_loop(a, n, i) ==
    IF Computed(a) /\ i >= 0
    THEN main_buildMaxHeap_loop(main_heapify(a, n, i), n, i - 1)
    ELSE a

main_buildMaxHeap(a, n) == main_buildMaxHeap_loop(a, n, (n \div 2) - 1)

\* the extraction loop of the heapSort of main.c, from index i down to 0
RECURSIVE main_heapSort_loop(_, _)
main_heapSort_loop(a, i) ==
    IF Computed(a) /\ i >= 0
    THEN main_heapSort_loop(main_heapify(swap(a, 0, i), i, 0), i - 1)
    ELSE a

main_heapSort(a, n) == main_heapSort_loop(main_buildMaxHeap(a, n), n - 1)

(***************************************************************************)
(* quicksort_f.c: insertion_sort, median_of_three, partition,              *)
(* quicksort_internal, quickSort.                                          *)
(***************************************************************************)
RECURSIVE qs_insertion_shift(_, _, _, _)
qs_insertion_shift(a, start, j, key) ==
    IF j >= start /\ a[j] > key
    THEN qs_insertion_shift([a EXCEPT ![j + 1] = a[j]], start, j - 1, key)
    ELSE [a EXCEPT ![j + 1] = key]

RECURSIVE qs_insertion_loop(_, _, _, _)
qs_insertion_loop(a, start, end, i) ==
    IF Computed(a) /\ i <= end
    THEN qs_insertion_loop(qs_insertion_shift(a, start, i - 1, a[i]),
                           start, end, i + 1)
    ELSE a

qs_insertion_sort(a, start, end) == qs_insertion_loop(a, start, end, start + 1)

\* the array after median_of_three; its return value is a[mid] of the result
median_of_three(a, low, high) ==
    LET mid == low + ((high - low) \div 2)
        a1  == IF a[mid] < a[low] THEN swap(a, low, mid) ELSE a
        a2  == IF a1[high] < a1[low] THEN swap(a1, low, high) ELSE a1
        a3  == IF a2[high] < a2[mid] THEN swap(a2, mid, high) ELSE a2
    IN  a3

\* mutant of the Lomuto loop: the element at j is copied over a[i + 1]
\* instead of being swapped with it
RECURSIVE partition_loop_copy(_, _, _, _, _)
partition_loop_copy(a, high, pivot, i, j) ==
    IF j <= high - 1
    THEN IF a[j] <= pivot
         THEN partition_loop_copy([a EXCEPT ![i + 1] = a[j]], high, pivot,
                                  i + 1, j + 1)
         ELSE partition_loop_copy(a, high, pivot, i, j + 1)
    ELSE [a |-> a, i |-> i]

\* the for loop of partition: the array and i when j has reached high
RECURSIVE partition_loop(_, _, _, _, _)
partition_loop(a, high, pivot, i, j) ==
    IF j <= high - 1
    THEN IF a[j] <= pivot
         THEN partition_loop(swap(a, i + 1, j), high, pivot, i + 1, j + 1)
         ELSE partition_loop(a, high, pivot, i, j + 1)
    ELSE [a |-> a, i |-> i]

\* mutant of partition: the pivot is not brought from a[high] to a[i + 1]
partition_no_final_swap(a, low, high) ==
    LET m     == median_of_three(a, low, high)
        s     == swap(m, high, high - 1)
        pivot == s[high]
        r     == partition_loop(s, high, pivot, low - 1, low)
    IN  [a |-> r.a, pi |-> r.i + 1, pivot |-> pivot]

\* partition: the array after it, the index it returns and the value the
\* loop compared with
partition(a, low, high) ==
    LET m     == median_of_three(a, low, high)
        s     == swap(m, high, high - 1)
        pivot == s[high]
        r     == partition_loop(s, high, pivot, low - 1, low)
    IN  [a |-> swap(r.a, r.i + 1, high), pi |-> r.i + 1, pivot |-> pivot]

\* mutant of quicksort_internal: after the recursive call on the smaller side
\* the loop is left instead of continuing on the larger side
RECURSIVE quicksort_internal_no_iteration(_, _, _)
quicksort_internal_no_iteration(a, low, high) ==
    IF low < high
    THEN IF high - low < INSERTION_SORT_THRESHOLD
         THEN qs_insertion_sort(a, low, high)
         ELSE LET p == partition(a, low, high)
              IN  IF p.pi - low < high - p.pi
                  THEN quicksort_internal_no_iteration(p.a, low, p.pi - 1)
                  ELSE quicksort_internal_no_iteration(p.a, p.pi + 1, high)
    ELSE a

\* the while loop of quicksort_internal; the iteration on the larger side is
\* the outer call, the recursive call on the smaller side the inner one
RECURSIVE quicksort_internal(_, _, _)
quicksort_internal(a, low, high) ==
    IF low < high
    THEN IF high - low < INSERTION_SORT_THRESHOLD
         THEN qs_insertion_sort(a, low, high)
         ELSE LET p == partition(a, low, high)
              IN  IF p.pi - low < high - p.pi
                  THEN quicksort_internal(
                           quicksort_internal(p.a, low, p.pi - 1),
                           p.pi + 1, high)
                  ELSE quicksort_internal(
                           quicksort_internal(p.a, p.pi + 1, high),
                           low, p.pi - 1)
    ELSE a

quickSort(a, n) == IF n <= 1 THEN a ELSE quicksort_internal(a, 0, n - 1)

Max(x, y) == IF x >= y THEN x ELSE y

\* mutant of the traced quicksort_internal: the recursive call is made on
\* the larger side
RECURSIVE quicksort_internal_trace_larger(_, _, _, _)
quicksort_internal_trace_larger(a, low, high, depth) ==
    IF low < high
    THEN IF high - low < INSERTION_SORT_THRESHOLD
         THEN [a |-> qs_insertion_sort(a, low, high), depth |-> depth,
               partitions |-> {}, recursions |-> {},
               insertions |-> {[low |-> low, high |-> high]}]
         ELSE LET p    == partition(a, low, high)
                  left == ~(p.pi - low < high - p.pi)
                  in   == IF left
                          THEN quicksort_internal_trace_larger(
                                   p.a, low, p.pi - 1, depth + 1)
                          ELSE quicksort_internal_trace_larger(
                                   p.a, p.pi + 1, high, depth + 1)
                  out  == IF left
                          THEN quicksort_internal_trace_larger(
                                   in.a, p.pi + 1, high, depth)
                          ELSE quicksort_internal_trace_larger(
                                   in.a, low, p.pi - 1, depth)
                  size == IF left THEN p.pi - low ELSE high - p.pi
              IN  [a |-> out.a,
                   depth |-> Max(in.depth, out.depth),
                   partitions |-> {[a |-> a, low |-> low, high |-> high]}
                                  \cup in.partitions \cup out.partitions,
                   recursions |-> {[callee |-> size,
                                    caller |-> high - low + 1]}
                                  \cup in.recursions \cup out.recursions,
                   insertions |-> in.insertions \cup out.insertions]
    ELSE [a |-> a, depth |-> depth, partitions |-> {}, recursions |-> {},
          insertions |-> {}]

\* quicksort_internal entered at nesting depth depth, with what it does on
\* the way: a is the array when it returns, depth the deepest nesting
\* reached, partitions the calls of partition (array on entry, low, high),
\* recursions the recursive calls made (number of elements of the range
\* passed, number of elements of the caller's range at that moment),
\* insertions the ranges passed to insertion_sort
RECURSIVE quicksort_internal_trace(_, _, _, _)
quicksort_internal_trace(a, low, high, depth) ==
    IF low < high
    THEN IF high - low < INSERTION_SORT_THRESHOLD
         THEN [a |-> qs_insertion_sort(a, low, high), depth |-> depth,
               partitions |-> {}, recursions |-> {},
               insertions |-> {[low |-> low, high |-> high]}]
         ELSE LET p    == partition(a, low, high)
                  left == p.pi - low < high - p.pi
                  in   == IF left
                          THEN quicksort_internal_trace(
                                   p.a, low, p.pi - 1, depth + 1)
                          ELSE quicksort_internal_trace(
                                   p.a, p.pi + 1, high, depth + 1)
                  out  == IF left
                          THEN quicksort_internal_trace(
                                   in.a, p.pi + 1, high, depth)
                          ELSE quicksort_internal_trace(
                                   in.a, low, p.pi - 1, depth)
                  size == IF left THEN p.pi - low ELSE high - p.pi
              IN  [a |-> out.a,
                   depth |-> Max(in.depth, out.depth),
                   partitions |-> {[a |-> a, low |-> low, high |-> high]}
                                  \cup in.partitions \cup out.partitions,
                   recursions |-> {[callee |-> size,
                                    caller |-> high - low + 1]}
                                  \cup in.recursions \cup out.recursions,
                   insertions |-> in.insertions \cup out.insertions]
    ELSE [a |-> a, depth |-> depth, partitions |-> {}, recursions |-> {},
          insertions |-> {}]

\* quickSort with the trace of its call of quicksort_internal, which is at
\* nesting depth 1; no call is made for n <= 1
quickSort_trace(a, n) ==
    IF n <= 1
    THEN [a |-> a, depth |-> 0, partitions |-> {}, recursions |-> {},
          insertions |-> {}]
    ELSE quicksort_internal_trace(a, 0, n - 1, 1)

(***************************************************************************)
(* The sort functions one step at a time.  A step is one iteration of a    *)
(* loop of heapify, buildMaxHeap, heapSort, blockHeapSort or               *)
(* quicksort_internal; insertion_sort and partition, whose loops run over  *)
(* a fixed index range, are taken whole.  Each step comes with the indices *)
(* of the array elements it reads or writes.                               *)
(***************************************************************************)
\* indices read and written by the while loop of insertion_sort
\* (heapsort_f.c) and the store of key after it
RECURSIVE hs_insertion_shift_touched(_, _, _)
hs_insertion_shift_touched(a, j, key) ==
    IF j >= 0
    THEN IF a[j] > key
         THEN {j, j + 1} \cup hs_insertion_shift_touched(a, j - 1, key)
         ELSE {j, j + 1}
    ELSE {j + 1}

\* indices read and written by insertion_sort(a, n) from index i on
RECURSIVE hs_insertion_loop_touched(_, _, _)
hs_insertion_loop_touched(a, n, i) ==
    IF Computed(a) /\ i < n
    THEN {i} \cup hs_insertion_shift_touched(a, i - 1, a[i])
             \cup hs_insertion_loop_touched(
                      hs_insertion_shift(a, i - 1, a[i]), n, i + 1)
    ELSE {}

hs_insertion_touched(a, n) == hs_insertion_loop_touched(a, n, 1)

\* the same for insertion_sort(a, start, end) of quicksort_f.c
\* mutant of the indices of the while loop of insertion_sort: the loop runs
\* down to index 0 instead of start
RECURSIVE qs_insertion_shift_touched_to_zero(_, _, _, _)
qs_insertion_shift_touched_to_zero(a, start, j, key) ==
    IF j >= 0
    THEN IF a[j] > key
         THEN {j, j + 1}
                  \cup qs_insertion_shift_touched_to_zero(a, start, j - 1, key)
         ELSE {j, j + 1}
    ELSE {j + 1}

RECURSIVE qs_insertion_shift_touched(_, _, _, _)
qs_insertion_shift_touched(a, start, j, key) ==
    IF j >= start
    THEN IF a[j] > key
         THEN {j, j + 1} \cup qs_insertion_shift_touched(a, start, j - 1, key)
         ELSE {j, j + 1}
    ELSE {j + 1}

RECURSIVE qs_insertion_loop_touched(_, _, _, _)
qs_insertion_loop_touched(a, start, end, i) ==
    IF Computed(a) /\ i <= end
    THEN {i} \cup qs_insertion_shift_touched(a, start, i - 1, a[i])
             \cup qs_insertion_loop_touched(
                      qs_insertion_shift(a, start, i - 1, a[i]),
                      start, end, i + 1)
    ELSE {}

qs_insertion_touched(a, start, end) ==
    qs_insertion_loop_touched(a, start, end, start + 1)

\* indices read and written by the for loop of partition from j on
RECURSIVE partition_loop_touched(_, _, _, _, _)
partition_loop_touched(a, high, pivot, i, j) ==
    IF j <= high - 1
    THEN IF a[j] <= pivot
         THEN {j, i + 1} \cup partition_loop_touched(
                                  swap(a, i + 1, j), high, pivot, i + 1, j + 1)
         ELSE {j} \cup partition_loop_touched(a, high, pivot, i, j + 1)
    ELSE {}

\* indices read and written by partition(a, low, high): those of
\* median_of_three, of the swap of a[high] and a[high - 1], of the loop and
\* of the final swap of a[i + 1] and a[high]
partition_touched(a, low, high) ==
    LET m == median_of_three(a, low, high)
        s == swap(m, high, high - 1)
    IN  {low, low + ((high - low) \div 2), high, high - 1}
            \cup partition_loop_touched(s, high, s[high], low - 1, low)
            \cup {partition(a, low, high).pi, high}

\* One iteration of the while (1) loop of heapify for the call f with heap
\* size f.n, index f.i and cached value f.current: the array after it, the
\* index it goes on with, done when it has left the loop and stored the
\* cached value, the indices read and written, and the indices whose
\* addresses are passed to PREFETCH
heapify_iteration(a, f) ==
    LET left == 2 * f.i + 1
    IN  IF left >= f.n
        THEN [a |-> [a EXCEPT ![f.i] = f.current], i |-> f.i, done |-> TRUE,
              touched |-> {f.i}, hinted |-> {}]
        ELSE LET hinted    == IF left + 2 < f.n
                              THEN {2 * left + 1, 2 * left + 2} ELSE {}
                 compared  == IF left + 1 < f.n THEN {left, left + 1} ELSE {}
                 child_idx == IF left + 1 < f.n /\ a[left] < a[left + 1]
                              THEN left + 1 ELSE left
             IN  IF f.current >= a[child_idx]
                 THEN [a |-> [a EXCEPT ![f.i] = f.current], i |-> f.i,
                       done |-> TRUE,
                       touched |-> compared \cup {child_idx, f.i},
                       hinted |-> hinted]
                 ELSE [a |-> [a EXCEPT ![f.i] = a[child_idx]],
                       i |-> child_idx, done |-> FALSE,
                       touched |-> compared \cup {child_idx, f.i},
                       hinted |-> hinted]

\* mutant of the iteration of quicksort_internal: the loop goes on with a
\* range that still holds the pivot index
quicksort_iteration_keep_pivot(a, low, high) ==
    IF high - low < INSERTION_SORT_THRESHOLD
    THEN [a |-> qs_insertion_sort(a, low, high), break |-> TRUE,
          touched |-> qs_insertion_touched(a, low, high)]
    ELSE LET p == partition(a, low, high)
         IN  IF p.pi - low < high - p.pi
             THEN [a |-> p.a, break |-> FALSE, pi |-> p.pi,
                   call |-> [low |-> low, high |-> p.pi - 1],
                   next |-> [low |-> p.pi, high |-> high],
                   touched |-> partition_touched(a, low, high)]
             ELSE [a |-> p.a, break |-> FALSE, pi |-> p.pi,
                   call |-> [low |-> p.pi + 1, high |-> high],
                   next |-> [low |-> low, high |-> p.pi],
                   touched |-> partition_touched(a, low, high)]

\* One iteration of the while loop of quicksort_internal on low < high:
\* either the insertion sort and the break, or the partition with the range
\* of the recursive call (call) and the range the loop goes on with (next)
quicksort_iteration(a, low, high) ==
    IF high - low < INSERTION_SORT_THRESHOLD
    THEN [a |-> qs_insertion_sort(a, low, high), break |-> TRUE,
          touched |-> qs_insertion_touched(a, low, high)]
    ELSE LET p == partition(a, low, high)
         IN  IF p.pi - low < high - p.pi
             THEN [a |-> p.a, break |-> FALSE, pi |-> p.pi,
                   call |-> [low |-> low, high |-> p.pi - 1],
                   next |-> [low |-> p.pi + 1, high |-> high],
                   touched |-> partition_touched(a, low, high)]
             ELSE [a |-> p.a, break |-> FALSE, pi |-> p.pi,
                   call |-> [low |-> p.pi + 1, high |-> high],
                   next |-> [low |-> low, high |-> p.pi - 1],
                   touched |-> partition_touched(a, low, high)]

(***************************************************************************)
(* common.c: countIntegers and readIntegers.  The file is the sequence of  *)
(* its characters; a stream position is the index of the next character    *)
(* to be read, Len(text) + 1 at end of file.                               *)
(***************************************************************************)
\* isspace(ch), over the characters of the model
IsSpace(ch) == ch \in {" ", "\t", "\n"}

\* isdigit(ch)
IsDigit(ch) == ch \in {"0", "1", "2", "3", "4", "5", "6", "7", "8", "9"}

DigitValue(ch) ==
    CASE ch = "0" -> 0 [] ch = "1" -> 1 [] ch = "2" -> 2 [] ch = "3" -> 3
      [] ch = "4" -> 4 [] ch = "5" -> 5 [] ch = "6" -> 6 [] ch = "7" -> 7
      [] ch = "8" -> 8 [] ch = "9" -> 9

\* the position of the first character at or after pos that is not white
\* space
RECURSIVE SkipSpace(_, _)
SkipSpace(text, pos) ==
    IF pos <= Len(text) /\ IsSpace(text[pos])
    THEN SkipSpace(text, pos + 1)
    ELSE pos

\* the digits read from pos on: the value accumulated and the position of
\* the first character that is no digit
RECURSIVE ScanDigits(_, _, _)
ScanDigits(text, pos, acc) ==
    IF pos <= Len(text) /\ IsDigit(text[pos])
    THEN ScanDigits(text, pos + 1, 10 * acc + DigitValue(text[pos]))
    ELSE [val |-> acc, pos |-> pos]

\* fscanf(file, "%d", &num) at position pos: white space is skipped, then an
\* optional sign and at least one digit are read.  ret is 1 with the value
\* and the position after the digits; 0 on a matching failure, a sign that
\* no digit follows being consumed; -1 (EOF) when the file ends first.
fscanf_d(text, pos) ==
    LET p      == SkipSpace(text, pos)
        signed == p <= Len(text) /\ text[p] \in {"-", "+"}
        q      == IF signed THEN p + 1 ELSE p
        d      == ScanDigits(text, q, 0)
    IN  IF d.pos > q
        THEN [ret |-> 1,
              val |-> IF signed /\ text[p] = "-" THEN 0 - d.val ELSE d.val,
              pos |-> d.pos]
        ELSE [ret |-> IF p > Len(text) THEN -1 ELSE 0, val |-> 0, pos |-> q]

\* the while loop of countIntegers
RECURSIVE countIntegers_loop(_, _, _)
countIntegers_loop(text, pos, count) ==
    LET r == fscanf_d(text, pos)
    IN  IF r.ret = 1 THEN countIntegers_loop(text, r.pos, count + 1)
        ELSE count

countIntegers(text) == countIntegers_loop(text, 1, 0)

\* the fgetc loop of readIntegers: the position of the first digit or sign
\* at or after pos, or end of file
RECURSIVE SkipToNumber(_, _)
SkipToNumber(text, pos) ==
    IF pos <= Len(text) /\ ~IsDigit(text[pos]) /\ text[pos] \notin {"-", "+"}
    THEN SkipToNumber(text, pos + 1)
    ELSE pos

\* the while loop of readIntegers: array is the function filled so far
RECURSIVE readIntegers_loop(_, _, _, _, _)
readIntegers_loop(text, pos, count, array, index) ==
    IF index < count
    THEN LET r == fscanf_d(text, pos)
         IN  IF r.ret = 1
             THEN readIntegers_loop(text, SkipToNumber(text, r.pos), count,
                      [k \in 0..index |-> IF k = index THEN r.val ELSE array[k]],
                      index + 1)
             ELSE [array |-> array, index |-> index]
    ELSE [array |-> array, index |-> index]

\* readIntegers(file, &count): null is TRUE when NULL is returned; malloc_ok
\* and aligned_ok are the outcomes of the two allocation attempts
readIntegers(text, malloc_ok, aligned_ok) ==
    LET counted == countIntegers(text)
    IN  IF counted = 0
        THEN [null |-> TRUE, array |-> EmptyArray, count |-> 0]
        ELSE IF ~malloc_ok /\ ~aligned_ok
        THEN [null |-> TRUE, array |-> EmptyArray, count |-> counted]
        ELSE LET r == readIntegers_loop(text, 1, counted, EmptyArray, 0)
             IN  IF r.index = 0
                 THEN [null |-> TRUE, array |-> EmptyArray, count |-> 0]
                 ELSE [null |-> FALSE, array |-> r.array, count |-> r.index]

(***************************************************************************)
(* main.c: countIntegers and readIntegers, which read the file line by     *)
(* line with fgets and cut each line into tokens with strtok.  No line of  *)
(* the model reaches the 1023 characters of the buffer.                    *)
(***************************************************************************)
\* the lines fgets returns from pos on, each with its newline; cur is the
\* line being collected
RECURSIVE fgets_lines(_, _, _)
fgets_lines(text, pos, cur) ==
    IF pos > Len(text)
    THEN IF cur = <<>> THEN <<>> ELSE <<cur>>
    ELSE IF text[pos] = "\n"
    THEN <<Append(cur, text[pos])>> \o fgets_lines(text, pos + 1, <<>>)
    ELSE fgets_lines(text, pos + 1, Append(cur, text[pos]))

\* the tokens strtok(buffer, " \t\n,;") returns one after the other
RECURSIVE strtok_tokens(_, _, _)
strtok_tokens(buffer, pos, cur) ==
    IF pos > Len(buffer)
    THEN IF cur = <<>> THEN <<>> ELSE <<cur>>
    ELSE IF buffer[pos] \in {" ", "\t", "\n", ",", ";"}
    THEN (IF cur = <<>> THEN <<>> ELSE <<cur>>) \o
         strtok_tokens(buffer, pos + 1, <<>>)
    ELSE strtok_tokens(buffer, pos + 1, Append(cur, buffer[pos]))

\* the tokens of the whole file, line after line
RECURSIVE main_tokens(_, _)
main_tokens(lines, k) ==
    IF k > Len(lines) THEN <<>>
    ELSE strtok_tokens(lines[k], 1, <<>>) \o main_tokens(lines, k + 1)

\* isValid && strlen(token) > 0: a sign is accepted at index 0, a digit
\* anywhere; a sign alone passes
main_isValid(token) ==
    /\ Len(token) > 0
    /\ \A i \in 1..Len(token) :
          (i = 1 /\ token[i] \in {"-", "+"}) \/ IsDigit(token[i])

\* atoi(token)
main_atoi(token) ==
    LET r == fscanf_d(token, 1)
    IN  IF r.ret = 1 THEN r.val ELSE 0

\* countIntegers of main.c
main_countIntegers(text) ==
    Len(SelectSeq(main_tokens(fgets_lines(text, 1, <<>>), 1), main_isValid))

\* readIntegers of main.c: null is TRUE when NULL is returned; malloc_ok is
\* the outcome of the allocation.  The second pass applies the test of the
\* first, so it fills all count places.
main_readIntegers(text, malloc_ok) ==
    LET counted == main_countIntegers(text)
        valid   == SelectSeq(main_tokens(fgets_lines(text, 1, <<>>), 1),
                             main_isValid)
    IN  IF counted = 0 \/ ~malloc_ok
        THEN [null |-> TRUE, array |-> EmptyArray, count |-> counted]
        ELSE [null |-> FALSE,
              array |-> [k \in 0..(counted - 1) |-> main_atoi(valid[k + 1])],
              count |-> counted]

(***************************************************************************)
(* The command line and the timing output of the sorter programs.          *)
(***************************************************************************)
\* the characters of each command-line argument of the model
ArgChars(arg) ==
    CASE arg = "7" ->
           <<"7">>
      [] arg = "-f" ->
           <<"-", "f">>
      [] arg = "-o" ->
           <<"-", "o">>
      [] arg = "-h" ->
           <<"-", "h">>
      [] arg = "--help" ->
           <<"-", "-", "h", "e", "l", "p">>
      [] arg = "--bench-time" ->
           <<"-", "-", "b", "e", "n", "c", "h", "-", "t", "i", "m", "e">>
      [] arg = "--time-only" ->
           <<"-", "-", "t", "i", "m", "e", "-", "o", "n", "l", "y">>
      [] arg = "--block-sort" ->
           <<"-", "-", "b", "l", "o", "c", "k", "-", "s", "o", "r", "t">>

\* atoi(argv[i]): the leading optionally signed digits of the argument, 0
\* when there are none
atoi(arg) ==
    LET r == fscanf_d(ArgChars(arg), 1)
    IN  IF r.ret = 1 THEN r.val ELSE 0

\* the options of main before the command line is parsed; status is "parsed"
\* until the loop returns from main, out_opens counts the output files
\* opened with fopen(.., "w") and out_tried tells whether one was tried
InitialOptions ==
    [timeOnly |-> FALSE, benchTimeMode |-> FALSE, useBlockSort |-> FALSE,
     usingFiles |-> FALSE, inputFilename |-> "NULL", outputFile |-> "NULL",
     status |-> "parsed", out_opens |-> 0, out_tried |-> FALSE]

\* mutant of the option loop: --time-only is honoured after --bench-time
RECURSIVE parse_loop_last_wins(_, _, _, _, _)
parse_loop_last_wins(program, args, i, can_write, st) ==
    LET argc == Len(args) + 1
    IN  IF ~(i < argc) THEN st
        ELSE IF args[i] = "--bench-time"
        THEN parse_loop_last_wins(program, args, i + 1, can_write,
                 [st EXCEPT !.benchTimeMode = TRUE, !.timeOnly = FALSE])
        ELSE IF args[i] = "--time-only"
        THEN parse_loop_last_wins(program, args, i + 1, can_write,
                 [st EXCEPT !.benchTimeMode = FALSE, !.timeOnly = TRUE])
        ELSE IF program = "heapsort" /\ args[i] = "--block-sort"
        THEN parse_loop_last_wins(program, args, i + 1, can_write,
                 [st EXCEPT !.useBlockSort = TRUE])
        ELSE IF args[i] \in {"--help", "-h"}
        THEN [st EXCEPT !.status = "help"]
        ELSE IF args[i] = "-f" /\ i + 1 < argc
        THEN LET st1 == [st EXCEPT !.inputFilename = args[i + 1],
                                   !.usingFiles = TRUE]
                 j   == i + 1
             IN  IF j + 2 < argc /\ args[j + 1] = "-o"
                 THEN IF can_write
                      THEN parse_loop_last_wins(program, args, j + 3, can_write,
                               [st1 EXCEPT !.outputFile = args[j + 2],
                                           !.out_opens = @ + 1,
                                           !.out_tried = TRUE])
                      ELSE [st1 EXCEPT !.status = "output_error",
                                       !.out_tried = TRUE]
                 ELSE parse_loop_last_wins(program, args, j + 1, can_write, st1)
        ELSE IF args[i] = "-o" /\ i + 1 < argc
        THEN IF can_write
             THEN parse_loop_last_wins(program, args, i + 2, can_write,
                      [st EXCEPT !.outputFile = args[i + 1],
                                 !.out_opens = @ + 1, !.out_tried = TRUE])
             ELSE [st EXCEPT !.status = "output_error", !.out_tried = TRUE]
        ELSE parse_loop_last_wins(program, args, i + 1, can_write, st)

\* the option loop of main, from argv[i] on.  args[i] is argv[i] and argc is
\* Len(args) + 1; can_write is the outcome of fopen(.., "w").  The loop ends
\* main at --help ("help") and at an output file that cannot be opened
\* ("output_error").
RECURSIVE parse_loop(_, _, _, _, _)
parse_loop(program, args, i, can_write, st) ==
    LET argc == Len(args) + 1
    IN  IF ~(i < argc) THEN st
        ELSE IF args[i] = "--bench-time"
        THEN parse_loop(program, args, i + 1, can_write,
                 [st EXCEPT !.benchTimeMode = TRUE, !.timeOnly = FALSE])
        ELSE IF args[i] = "--time-only"
        THEN parse_loop(program, args, i + 1, can_write,
                 IF ~st.benchTimeMode THEN [st EXCEPT !.timeOnly = TRUE]
                 ELSE st)
        ELSE IF program = "heapsort" /\ args[i] = "--block-sort"
        THEN parse_loop(program, args, i + 1, can_write,
                 [st EXCEPT !.useBlockSort = TRUE])
        ELSE IF args[i] \in {"--help", "-h"}
        THEN [st EXCEPT !.status = "help"]
        ELSE IF args[i] = "-f" /\ i + 1 < argc
        THEN LET st1 == [st EXCEPT !.inputFilename = args[i + 1],
                                   !.usingFiles = TRUE]
                 j   == i + 1
             IN  IF j + 2 < argc /\ args[j + 1] = "-o"
                 THEN IF can_write
                      THEN parse_loop(program, args, j + 3, can_write,
                               [st1 EXCEPT !.outputFile = args[j + 2],
                                           !.out_opens = @ + 1,
                                           !.out_tried = TRUE])
                      ELSE [st1 EXCEPT !.status = "output_error",
                                       !.out_tried = TRUE]
                 ELSE parse_loop(program, args, j + 1, can_write, st1)
        ELSE IF args[i] = "-o" /\ i + 1 < argc
        THEN IF can_write
             THEN parse_loop(program, args, i + 2, can_write,
                      [st EXCEPT !.outputFile = args[i + 1],
                                 !.out_opens = @ + 1, !.out_tried = TRUE])
             ELSE [st EXCEPT !.status = "output_error", !.out_tried = TRUE]
        ELSE parse_loop(program, args, i + 1, can_write, st)

\* clock ticks per second (POSIX)
CLOCKS_PER_SEC == 1000000

DigitChar(d) ==
    CASE d = 0 -> "0" [] d = 1 -> "1" [] d = 2 -> "2" [] d = 3 -> "3"
      [] d = 4 -> "4" [] d = 5 -> "5" [] d = 6 -> "6" [] d = 7 -> "7"
      [] d = 8 -> "8" [] d = 9 -> "9"

\* the decimal digits of x >= 0, at least width of them
RECURSIVE DecimalDigits(_, _)
DecimalDigits(x, width) ==
    IF x < 10 /\ width <= 1 THEN <<DigitChar(x)>>
    ELSE Append(DecimalDigits(x \div 10, width - 1), DigitChar(x % 10))

\* printf("%.9f\n", time_taken) for time_taken = elapsed / CLOCKS_PER_SEC:
\* the characters of the line
raw_time_line(elapsed) ==
    DecimalDigits(elapsed \div CLOCKS_PER_SEC, 1) \o <<".">> \o
    DecimalDigits((elapsed % CLOCKS_PER_SEC) * (1000000000 \div CLOCKS_PER_SEC), 9)

\* the unit format_time chooses for time_taken = elapsed / CLOCKS_PER_SEC
format_time_unit(elapsed) ==
    IF elapsed < CLOCKS_PER_SEC \div 1000000 THEN "ns"
    ELSE IF elapsed < CLOCKS_PER_SEC \div 1000 THEN "us"
    ELSE IF elapsed < CLOCKS_PER_SEC THEN "ms"
    ELSE "s"

\* sprintf("%.2f", x) for x = h / 100 + r / (100 * d) with 0 <= r < d: the
\* value is rounded to the nearest hundredth; at an exact decimal tie the
\* double nearest to x lies on either side, so tie_up decides
TwoDecimals(h, r, d, tie_up) ==
    LET up == (2 * r > d) \/ (2 * r = d /\ tie_up)
        H  == IF up THEN h + 1 ELSE h
    IN  DecimalDigits(H \div 100, 1) \o <<".">> \o DecimalDigits(H % 100, 2)

\* mutant of format_time: a duration on a unit boundary stays in the smaller
\* unit
format_time_inclusive(t, tie_up) ==
    IF t.sec = 0 /\ t.nano <= 1000
    THEN TwoDecimals(100 * t.nano, 0, 1, tie_up) \o <<" ", "n", "s">>
    ELSE IF t.sec = 0 /\ t.nano <= 1000000
    THEN TwoDecimals(t.nano \div 10, t.nano % 10, 10, tie_up) \o
         <<" ", "μ", "s">>
    ELSE IF t.sec = 0 \/ (t.sec = 1 /\ t.nano = 0)
    THEN TwoDecimals((1000 * t.sec * 100) + (t.nano \div 10000),
                     t.nano % 10000, 10000, tie_up) \o <<" ", "m", "s">>
    ELSE TwoDecimals(100 * t.sec + (t.nano \div 10000000),
                     t.nano % 10000000, 10000000, tie_up) \o <<" ", "s">>

\* format_time(time_seconds, buffer, ..) for time_seconds = t.sec +
\* t.nano / 1e9: the characters written to buffer
format_time(t, tie_up) ==
    IF t.sec = 0 /\ t.nano < 1000
    THEN TwoDecimals(100 * t.nano, 0, 1, tie_up) \o <<" ", "n", "s">>
    ELSE IF t.sec = 0 /\ t.nano < 1000000
    THEN TwoDecimals(t.nano \div 10, t.nano % 10, 10, tie_up) \o
         <<" ", "μ", "s">>
    ELSE IF t.sec = 0
    THEN TwoDecimals(t.nano \div 10000, t.nano % 10000, 10000, tie_up) \o
         <<" ", "m", "s">>
    ELSE TwoDecimals(100 * t.sec + (t.nano \div 10000000),
                     t.nano % 10000000, 10000000, tie_up) \o <<" ", "s">>

\* one piece of output: what it is and, where the model spells it out, its
\* characters
Item(kind) == [kind |-> kind, text |-> <<>>]

(***************************************************************************)
(* Bounds of the command line and of the files.                            *)
(***************************************************************************)
\* number of arguments after the program name
MaxArgs == 4

\* length of the text handed to readIntegers on its own
MaxTextLen == 4

Chars == {"1", "2", "-", "+", "a", " ", "\t", "\n", ",", ";"}

\* the arguments of the model; "7" is a number and, after -f or -o, a file
\* name
Args == {"-f", "-o", "-h", "--bench-time", "--time-only", "--block-sort", "7"}

Programs == {"heapsort", "quicksort"}

\* the input files main is run on: empty, a malformed token, one integer,
\* digits glued to a letter, two integers in descending order, two integers
\* and a comma
InputFiles ==
    {<<>>, <<"a">>, <<"1">>, <<"1", "a">>, <<"2", " ", "1">>,
     <<"2", ",", "1">>}

\* end_time - start_time of the runs of main, in clock ticks
ElapsedTicks == {0, 1234567}

\* the sequences over S of length at most len
SeqsUpTo(S, len) == UNION {[1..k -> S] : k \in 0..len}

(***************************************************************************)
(* State.                                                                  *)
(*   program   which sorter runs: "heapsort", "quicksort"                  *)
(*   argv      argv[1..argc-1]                                             *)
(*   pc        the position of main                                        *)
(*   opts      the variables set by the option loop                        *)
(*   fileText  the characters of the input file, <<>> before it is opened  *)
(*   a, n      the corpus and its length (main's a and n)                  *)
(*   aPtr      the pointer a: "NULL", "valid" (it points to the corpus) or  *)
(*             "wild" (it points elsewhere)                                *)
(*   original  the copy of the corpus taken before sorting                 *)
(*   lastOp    the function called last on the corpus, "none" before       *)
(*   calls     number of sort calls made on a so far                       *)
(*   elapsed   end_time - start_time, in clock ticks                       *)
(*   stdout, stderr   what has been written to the two streams             *)
(*   outFile   the report file: "unopened", "open_empty" (opened for       *)
(*             writing, nothing written, not closed), "closed_report"      *)
(*   exitCode  the value main returned, -1 while it runs                   *)
(*   events    the file, clock and sort steps taken so far, in order       *)
(*   time_seconds   the argument of format_time: sec whole seconds and     *)
(*             nano billionths of a second                                 *)
(*   buffer    the characters format_time has written, <<>> before         *)
(*   bench     the state of measure_sort_time in the benchmark program     *)
(***************************************************************************)
VARIABLES program, argv, pc, opts, fileText, a, n, aPtr, original, lastOp,
          calls, elapsed, stdout, stderr, outFile, exitCode, events,
          time_seconds, buffer, bench, frames, touched, hinted

vars == <<program, argv, pc, opts, fileText, a, n, aPtr, original, lastOp,
          calls, elapsed, stdout, stderr, outFile, exitCode, events,
          time_seconds, buffer, bench, frames, touched, hinted>>

benchVars == <<time_seconds, buffer, bench>>

\* the sort functions taken step by step: frames is the stack of the calls
\* in progress, the innermost last; touched holds the indices of the array
\* elements read or written by the last step, hinted the indices whose
\* addresses it passed to PREFETCH
runVars == <<frames, touched, hinted>>

\* no sort function is being stepped through
RunIdle ==
    /\ frames = <<>>
    /\ touched = {}
    /\ hinted = {}

\* format_time and measure_sort_time have not been called
BenchIdle ==
    /\ time_seconds = [sec |-> 0, nano |-> 0]
    /\ buffer = <<>>
    /\ bench = [pc |-> "idle"]

corpusVars == <<a, n, aPtr, original, lastOp, calls>>

mainVars == <<program, argv, pc, opts, elapsed, stdout, stderr, outFile,
              exitCode, events>>

\* main has not been entered
MainIdle ==
    /\ program = "none"
    /\ argv = <<>>
    /\ pc = "idle"
    /\ opts = InitialOptions
    /\ elapsed = 0
    /\ stdout = <<>>
    /\ stderr = <<>>
    /\ outFile = "unopened"
    /\ exitCode = -1
    /\ events = <<>>
    /\ BenchIdle
    /\ RunIdle

(***************************************************************************)
(* The sort functions on generated arrays.                                 *)
(***************************************************************************)
\* the moduli of the generated arrays: the small ones give many duplicate
\* values, MaxLen + 1 gives arrays of distinct values
Moduli == (1..MaxMod) \cup {MaxLen + 1}

\* the array of length len with a[i] = (s*i + q*i*i) % m: constant for s = 0,
\* q = 0, ascending runs for s = 1, descending runs for s = m - 1
GenArray(len, m, s, q) == [i \in 0..(len - 1) |-> (s * i + q * i * i) % m]

SortInit ==
    /\ \E len \in 0..MaxLen : \E m \in Moduli : \E s \in 0..(m - 1) :
       \E q \in 0..MaxQuad :
           /\ n = len
           /\ a = GenArray(len, m, s, q)
    /\ aPtr = "valid"
    /\ original = a
    /\ lastOp = "none"
    /\ calls = 0
    /\ fileText = <<>>
    /\ MainIdle

CallHeapSort ==
    /\ pc = "idle"
    /\ aPtr = "valid"
    /\ calls < MaxCalls
    /\ a' = heapSort(a, n)
    /\ lastOp' = "heapSort"
    /\ calls' = calls + 1
    /\ UNCHANGED <<n, aPtr, original, fileText, mainVars>>
    /\ UNCHANGED <<benchVars, runVars>>

CallBlockHeapSort ==
    /\ pc = "idle"
    /\ aPtr = "valid"
    /\ calls < MaxCalls
    /\ a' = blockHeapSort(a, n)
    /\ lastOp' = "blockHeapSort"
    /\ calls' = calls + 1
    /\ UNCHANGED <<n, aPtr, original, fileText, mainVars>>
    /\ UNCHANGED <<benchVars, runVars>>

CallQuickSort ==
    /\ pc = "idle"
    /\ aPtr = "valid"
    /\ calls < MaxCalls
    /\ a' = quickSort(a, n)
    /\ lastOp' = "quickSort"
    /\ calls' = calls + 1
    /\ UNCHANGED <<n, aPtr, original, fileText, mainVars>>
    /\ UNCHANGED <<benchVars, runVars>>

SortNext == CallHeapSort \/ CallBlockHeapSort \/ CallQuickSort

SpecSort == SortInit /\ [][SortNext]_vars

\* heapSort(a, n) of main.c
CallMainHeapSort ==
    /\ pc = "idle"
    /\ aPtr = "valid"
    /\ calls < MaxCalls
    /\ a' = main_heapSort(a, n)
    /\ lastOp' = "main_heapSort"
    /\ calls' = calls + 1
    /\ UNCHANGED <<n, aPtr, original, fileText, mainVars>>
    /\ UNCHANGED <<benchVars, runVars>>

\* the hybrid heap sort of heapsort_f.c and the plain heap sort of main.c,
\* called on the same arrays
HeapNext == CallHeapSort \/ CallMainHeapSort

SpecHeap == SortInit /\ [][HeapNext]_vars

(***************************************************************************)
(* The sort functions step by step, on generated arrays.                   *)
(***************************************************************************)
\* largest modulus of the arrays that are sorted step by step
MaxRunMod == 5

RunInit ==
    /\ \E len \in 0..MaxLen : \E m \in 1..MaxRunMod : \E s \in 0..(m - 1) :
       \E q \in 0..MaxQuad :
           /\ n = len
           /\ a = GenArray(len, m, s, q)
    /\ aPtr = "valid"
    /\ original = a
    /\ lastOp = "none"
    /\ calls = 0
    /\ fileText = <<>>
    /\ MainIdle

\* the innermost call in progress
Top == frames[Len(frames)]

\* the calls in progress but the innermost
Callers == SubSeq(frames, 1, Len(frames) - 1)

\* no sort function has been called yet
NotCalled == frames = <<>> /\ calls = 0 /\ pc = "idle" /\ aPtr = "valid"

\* the sort function called has returned
Returned == frames = <<>> /\ calls = 1

\* the frames of a sort that goes on with the calls fs; with no call left the
\* sort function returns
GoOn(fs) ==
    /\ frames' = fs
    /\ calls' = IF fs = <<>> THEN calls + 1 ELSE calls

\* the frame of a call heapify(a, size, i) made on the array b
HeapifyCall(b, size, i) ==
    [fn |-> "heapify", n |-> size, i |-> i, current |-> b[i]]

\* heapSort(a, n) is called: the insertion sort for n <= 16, or else the
\* call of buildMaxHeap with the extraction loop to follow
EnterHeapSort ==
    /\ NotCalled
    /\ lastOp' = "heapSort"
    /\ IF n <= INSERTION_SORT_THRESHOLD
       THEN /\ a' = hs_insertion_sort(a, n)
            /\ touched' = hs_insertion_touched(a, n)
            /\ GoOn(<<>>)
       ELSE /\ a' = a
            /\ touched' = {}
            /\ GoOn(<<[fn |-> "heapSort", i |-> n - 1],
                      [fn |-> "buildMaxHeap", i |-> (n \div 2) - 1]>>)
    /\ hinted' = {}
    /\ UNCHANGED <<n, aPtr, original, fileText, mainVars, benchVars>>

\* blockHeapSort(a, n) is called
EnterBlockHeapSort ==
    /\ NotCalled
    /\ lastOp' = "blockHeapSort"
    /\ IF n <= INSERTION_SORT_THRESHOLD
       THEN /\ a' = hs_insertion_sort(a, n)
            /\ touched' = hs_insertion_touched(a, n)
            /\ GoOn(<<>>)
       ELSE /\ a' = a
            /\ touched' = {}
            /\ GoOn(<<[fn |-> "blockHeapSort", inner |-> FALSE,
                       end |-> n - 1, block_end |-> n - 1, i |-> n - 1],
                      [fn |-> "buildMaxHeap", i |-> (n \div 2) - 1]>>)
    /\ hinted' = {}
    /\ UNCHANGED <<n, aPtr, original, fileText, mainVars, benchVars>>

\* quickSort(a, n) is called: it returns at once for n <= 1, or else calls
\* quicksort_internal(a, 0, n - 1)
EnterQuickSort ==
    /\ NotCalled
    /\ lastOp' = "quickSort"
    /\ IF n <= 1
       THEN GoOn(<<>>)
       ELSE GoOn(<<[fn |-> "quicksort_internal", low |-> 0, high |-> n - 1]>>)
    /\ touched' = {}
    /\ hinted' = {}
    /\ UNCHANGED <<a, n, aPtr, original, fileText, mainVars, benchVars>>

\* one iteration of the for loop of buildMaxHeap: the call heapify(a, n, i),
\* or the return when i has gone below 0
BuildMaxHeapStep ==
    /\ frames # <<>>
    /\ Top.fn = "buildMaxHeap"
    /\ IF Top.i >= 0
       THEN /\ GoOn(Callers \o <<[Top EXCEPT !.i = @ - 1],
                                 HeapifyCall(a, n, Top.i)>>)
            /\ touched' = {Top.i}
       ELSE /\ GoOn(Callers)
            /\ touched' = {}
    /\ hinted' = {}
    /\ UNCHANGED <<a, n, aPtr, original, lastOp, fileText, mainVars,
                   benchVars>>

\* one iteration of the while (1) loop of heapify; it returns after the
\* store of the cached value
HeapifyStep ==
    /\ frames # <<>>
    /\ Top.fn = "heapify"
    /\ LET r == heapify_iteration(a, Top)
       IN  /\ a' = r.a
           /\ touched' = r.touched
           /\ hinted' = r.hinted
           /\ IF r.done
              THEN GoOn(Callers)
              ELSE GoOn(Callers \o <<[Top EXCEPT !.i = r.i]>>)
    /\ UNCHANGED <<n, aPtr, original, lastOp, fileText, mainVars, benchVars>>

\* one iteration of the extraction loop of heapSort: the swap, then either
\* the insertion sort and the break, or the call heapify(a, i, 0)
ExtractStep ==
    /\ frames # <<>>
    /\ Top.fn = "heapSort"
    /\ IF Top.i > 0
       THEN LET s == swap(a, 0, Top.i)
            IN  IF Top.i <= INSERTION_SORT_THRESHOLD
                THEN /\ a' = hs_insertion_sort(s, Top.i)
                     /\ touched' = {0, Top.i}
                                       \cup hs_insertion_touched(s, Top.i)
                     /\ GoOn(Callers)
                ELSE /\ a' = s
                     /\ touched' = {0, Top.i}
                     /\ GoOn(Callers \o <<[Top EXCEPT !.i = @ - 1],
                                          HeapifyCall(s, Top.i, 0)>>)
       ELSE /\ a' = a
            /\ touched' = {}
            /\ GoOn(Callers)
    /\ hinted' = {}
    /\ UNCHANGED <<n, aPtr, original, lastOp, fileText, mainVars, benchVars>>

\* one iteration of the outer loop of blockHeapSort: the block is chosen, or
\* the function returns when end has reached 0
BlockOuterStep ==
    /\ frames # <<>>
    /\ Top.fn = "blockHeapSort"
    /\ ~Top.inner
    /\ IF Top.end > 0
       THEN GoOn(Callers \o
                 <<[Top EXCEPT !.inner = TRUE,
                               !.block_end = IF Top.end > block_size
                                             THEN Top.end - block_size
                                             ELSE 0,
                               !.i = Top.end]>>)
       ELSE GoOn(Callers)
    /\ touched' = {}
    /\ hinted' = {}
    /\ UNCHANGED <<a, n, aPtr, original, lastOp, fileText, mainVars,
                   benchVars>>

\* one iteration of the inner loop of blockHeapSort: the swap and the call
\* heapify(a, i, 0), or end = block_end when the block is done
BlockInnerStep ==
    /\ frames # <<>>
    /\ Top.fn = "blockHeapSort"
    /\ Top.inner
    /\ IF Top.i > Top.block_end
       THEN LET s == swap(a, 0, Top.i)
            IN  /\ a' = s
                /\ touched' = {0, Top.i}
                /\ GoOn(Callers \o <<[Top EXCEPT !.i = @ - 1],
                                     HeapifyCall(s, Top.i, 0)>>)
       ELSE /\ a' = a
            /\ touched' = {}
            /\ GoOn(Callers \o <<[Top EXCEPT !.inner = FALSE,
                                             !.end = Top.block_end]>>)
    /\ hinted' = {}
    /\ UNCHANGED <<n, aPtr, original, lastOp, fileText, mainVars, benchVars>>

\* one iteration of the while loop of quicksort_internal, or its return when
\* low < high fails or after the break
QuickSortStep ==
    /\ frames # <<>>
    /\ Top.fn = "quicksort_internal"
    /\ IF Top.low < Top.high
       THEN LET r == quicksort_iteration(a, Top.low, Top.high)
            IN  /\ a' = r.a
                /\ touched' = r.touched
                /\ IF r.break
                   THEN GoOn(Callers)
                   ELSE GoOn(Callers \o
                             <<[Top EXCEPT !.low = r.next.low,
                                           !.high = r.next.high],
                               [fn |-> "quicksort_internal",
                                low |-> r.call.low, high |-> r.call.high]>>)
       ELSE /\ a' = a
            /\ touched' = {}
            /\ GoOn(Callers)
    /\ hinted' = {}
    /\ UNCHANGED <<n, aPtr, original, lastOp, fileText, mainVars, benchVars>>

RunNext ==
    \/ EnterHeapSort
    \/ EnterBlockHeapSort
    \/ EnterQuickSort
    \/ BuildMaxHeapStep
    \/ HeapifyStep
    \/ ExtractStep
    \/ BlockOuterStep
    \/ BlockInnerStep
    \/ QuickSortStep

\* A step can be taken exactly when the function called has not returned:
\* every action asks for NotCalled or for a call in progress, and in those
\* states the guard of one of them holds.
StepEnabled == ~Returned

\* The program is the only thread, so a step that can be taken is taken:
\* weak fairness of RunNext.  It is WF_vars(RunNext) with the state predicate
\* StepEnabled in the place of ENABLED <<RunNext>>_vars.
RunFairness == <>[]StepEnabled => []<><<RunNext>>_vars

SpecRun == RunInit /\ [][RunNext]_vars /\ RunFairness

(***************************************************************************)
(* readIntegers on every text of at most MaxTextLen characters.            *)
(***************************************************************************)
ReadInit ==
    /\ fileText \in SeqsUpTo(Chars, MaxTextLen)
    /\ a = EmptyArray
    /\ n = 0
    /\ aPtr = "NULL"
    /\ original = EmptyArray
    /\ lastOp = "none"
    /\ calls = 0
    /\ MainIdle

\* a = readIntegers(file, &n); events records a failed allocation
CallReadIntegers ==
    /\ pc = "idle"
    /\ lastOp = "none"
    /\ \E malloc_ok \in BOOLEAN : \E aligned_ok \in BOOLEAN :
          LET r == readIntegers(fileText, malloc_ok, aligned_ok)
          IN  /\ a' = r.array
              /\ n' = r.count
              /\ aPtr' = IF r.null THEN "NULL" ELSE "valid"
              /\ events' = IF countIntegers(fileText) > 0 /\ ~malloc_ok
                              /\ ~aligned_ok
                           THEN <<"alloc_failed">> ELSE <<>>
    /\ lastOp' = "readIntegers"
    /\ UNCHANGED <<original, calls, fileText, program, argv, pc, opts,
                   elapsed, stdout, stderr, outFile, exitCode>>
    /\ UNCHANGED <<benchVars, runVars>>

\* a = readIntegers(file, &n) of main.c
CallMainReadIntegers ==
    /\ pc = "idle"
    /\ lastOp = "none"
    /\ \E malloc_ok \in BOOLEAN :
          LET r == main_readIntegers(fileText, malloc_ok)
          IN  /\ a' = r.array
              /\ n' = r.count
              /\ aPtr' = IF r.null THEN "NULL" ELSE "valid"
              /\ events' = IF main_countIntegers(fileText) > 0 /\ ~malloc_ok
                           THEN <<"alloc_failed">> ELSE <<>>
    /\ lastOp' = "main_readIntegers"
    /\ UNCHANGED <<original, calls, fileText, program, argv, pc, opts,
                   elapsed, stdout, stderr, outFile, exitCode>>
    /\ UNCHANGED <<benchVars, runVars>>

ReadNext == CallReadIntegers \/ CallMainReadIntegers

SpecRead == ReadInit /\ [][ReadNext]_vars

(***************************************************************************)
(* main of heapsort_f.c and of quicksort_f.c.  The two differ in the sort  *)
(* they call and in --block-sort, which only heapsort_f.c knows.  The      *)
(* append to sort_debug.log is left out: no step of main reads it.          *)
(***************************************************************************)
Init ==
    /\ program \in Programs
    /\ argv \in SeqsUpTo(Args, MaxArgs)
    /\ pc = "parse"
    /\ opts = InitialOptions
    /\ fileText = <<>>
    /\ a = EmptyArray
    /\ n = 0
    /\ aPtr = "NULL"
    /\ original = EmptyArray
    /\ lastOp = "none"
    /\ calls = 0
    /\ elapsed = 0
    /\ stdout = <<>>
    /\ stderr = <<>>
    /\ outFile = "unopened"
    /\ exitCode = -1
    /\ events = <<>>
    /\ BenchIdle
    /\ RunIdle

argc == Len(argv) + 1

\* mutant of the return: main returns 0 whatever happened
Return_always_zero(code) ==
    /\ exitCode' = 0
    /\ pc' = "exit"

\* return code from main
Return(code) ==
    /\ exitCode' = code
    /\ pc' = "exit"

\* the option loop: every fopen(.., "w") of one run has the same outcome
ParseArguments ==
    /\ pc = "parse"
    /\ \E can_write \in BOOLEAN :
          LET st == parse_loop(program, argv, 1, can_write, InitialOptions)
          IN  /\ opts' = st
              /\ events' = IF st.out_tried
                           THEN Append(events, "fopen_output") ELSE events
              /\ outFile' = IF st.out_opens > 0 THEN "open_empty" ELSE outFile
              /\ CASE st.status = "help" ->
                        /\ stdout' = Append(stdout, Item("usage"))
                        /\ stderr' = stderr
                        /\ Return(0)
                   [] st.status = "output_error" ->
                        /\ stdout' = stdout
                        /\ stderr' = Append(stderr, Item("error_output_file"))
                        /\ Return(1)
                   [] OTHER ->
                        /\ pc' = IF st.usingFiles THEN "open_input"
                                 ELSE "validate"
                        /\ UNCHANGED <<stdout, stderr, exitCode>>
    /\ UNCHANGED <<program, argv, fileText, corpusVars, elapsed>>
    /\ UNCHANGED <<benchVars, runVars>>

\* fopen(inputFilename, "r"): the file exists, with some content, or not
OpenInputFile ==
    /\ pc = "open_input"
    /\ \/ /\ fileText' \in InputFiles
          /\ events' = Append(events, "fopen_input")
          /\ pc' = "validate"
          /\ UNCHANGED <<stderr, exitCode>>
       \/ /\ stderr' = Append(stderr, Item("error_input_file"))
          /\ Return(1)
          /\ UNCHANGED <<fileText, events>>
    /\ UNCHANGED <<program, argv, opts, corpusVars, elapsed, stdout, outFile>>
    /\ UNCHANGED <<benchVars, runVars>>

ValidateArguments ==
    /\ pc = "validate"
    /\ IF argc < 2 \/ (~opts.usingFiles /\ argc = 2 /\
                       (opts.timeOnly \/ opts.benchTimeMode \/ opts.useBlockSort))
       THEN /\ stdout' = Append(stdout, Item("usage"))
            /\ Return(1)
       ELSE /\ pc' = "read"
            /\ UNCHANGED <<stdout, exitCode>>
    /\ UNCHANGED <<program, argv, opts, fileText, corpusVars, elapsed, stderr,
                   outFile, events>>
    /\ UNCHANGED <<benchVars, runVars>>

\* the corpus from the input file: readIntegers writes its diagnostics to
\* stderr and, when both allocations fail, runs "free -m", whose output goes
\* to stdout.  common.h does not declare readIntegers, so the pointer it
\* returns reaches main through an int: NULL stays NULL, any other pointer
\* either survives (kept) or is cut to a pointer into nowhere.
ReadCorpusFromFile ==
    /\ pc = "read"
    /\ opts.usingFiles
    /\ \E malloc_ok \in BOOLEAN : \E aligned_ok \in BOOLEAN :
       \E kept \in BOOLEAN :
          LET r == readIntegers(fileText, malloc_ok, aligned_ok)
              free_m == IF r.null /\ r.count > 0 THEN <<Item("free_m")>>
                        ELSE <<>>
          IN  /\ (malloc_ok \/ ~aligned_ok)
              /\ (r.null => kept)
              /\ a' = IF kept THEN r.array ELSE EmptyArray
              /\ n' = r.count
              /\ aPtr' = IF r.null THEN "NULL"
                         ELSE IF kept THEN "valid" ELSE "wild"
              /\ stderr' = Append(stderr, Item("reader_log"))
              /\ lastOp' = "readIntegers"
              /\ IF r.null \/ r.count = 0
                 THEN /\ stdout' = stdout \o free_m \o
                                   <<Item("error_no_integers")>>
                      /\ events' = Append(events, "read")
                      /\ Return(1)
                 ELSE /\ events' = events \o <<"read", "fclose_input">>
                      /\ pc' = "snapshot"
                      /\ UNCHANGED <<stdout, exitCode>>
    /\ UNCHANGED <<program, argv, opts, fileText, original, calls, elapsed,
                   outFile>>
    /\ UNCHANGED <<benchVars, runVars>>

\* the corpus from the command line: every argument goes through atoi
ReadCorpusFromArguments ==
    /\ pc = "read"
    /\ ~opts.usingFiles
    /\ \/ /\ n' = argc - 1
          /\ a' = [i \in 0..(argc - 2) |-> atoi(argv[i + 1])]
          /\ aPtr' = "valid"
          /\ pc' = "snapshot"
          /\ UNCHANGED <<stdout, exitCode>>
       \/ /\ n' = argc - 1
          /\ stdout' = Append(stdout, Item("error_allocation"))
          /\ Return(1)
          /\ UNCHANGED <<a, aPtr>>
    /\ UNCHANGED <<program, argv, opts, fileText, original, lastOp, calls,
                   elapsed, stderr, outFile, events>>
    /\ UNCHANGED <<benchVars, runVars>>

\* exit status of a process killed by SIGSEGV, as the shell reports it
SIGSEGV_STATUS == 139

\* original = copy of a: the allocation may fail; memcpy through a wild a
\* ends the process
CopyOriginal ==
    /\ pc = "snapshot"
    /\ \/ /\ aPtr = "valid"
          /\ original' = a
          /\ events' = Append(events, "copy")
          /\ pc' = "clock_start"
          /\ UNCHANGED <<stdout, exitCode>>
       \/ /\ aPtr = "wild"
          /\ events' = Append(events, "SIGSEGV")
          /\ Return(SIGSEGV_STATUS)
          /\ UNCHANGED <<original, stdout>>
       \/ /\ stdout' = Append(stdout, Item("error_allocation"))
          /\ Return(1)
          /\ UNCHANGED <<original, events>>
    /\ UNCHANGED <<program, argv, opts, fileText, a, n, aPtr, lastOp, calls,
                   elapsed, stderr, outFile>>
    /\ UNCHANGED <<benchVars, runVars>>

\* start_time = clock()
StartClock ==
    /\ pc = "clock_start"
    /\ events' = Append(events, "clock")
    /\ pc' = "sort"
    /\ UNCHANGED <<program, argv, opts, fileText, corpusVars, elapsed, stdout,
                   stderr, outFile, exitCode>>
    /\ UNCHANGED <<benchVars, runVars>>

\* mutant of the sort call: a diagnostic is written while the clock runs
SortCorpus_logging ==
    /\ pc = "sort"
    /\ IF program = "quicksort"
       THEN a' = quickSort(a, n) /\ lastOp' = "quickSort"
       ELSE IF opts.useBlockSort
            THEN a' = blockHeapSort(a, n) /\ lastOp' = "blockHeapSort"
            ELSE a' = heapSort(a, n) /\ lastOp' = "heapSort"
    /\ calls' = calls + 1
    /\ events' = Append(events, "sort")
    /\ stderr' = Append(stderr, Item("reader_log"))
    /\ pc' = "clock_end"
    /\ UNCHANGED <<program, argv, opts, fileText, n, aPtr, original, elapsed,
                   stdout, outFile, exitCode>>
    /\ UNCHANGED <<benchVars, runVars>>

\* the sort call of main
SortCorpus ==
    /\ pc = "sort"
    /\ IF program = "quicksort"
       THEN a' = quickSort(a, n) /\ lastOp' = "quickSort"
       ELSE IF opts.useBlockSort
            THEN a' = blockHeapSort(a, n) /\ lastOp' = "blockHeapSort"
            ELSE a' = heapSort(a, n) /\ lastOp' = "heapSort"
    /\ calls' = calls + 1
    /\ events' = Append(events, "sort")
    /\ pc' = "clock_end"
    /\ UNCHANGED <<program, argv, opts, fileText, n, aPtr, original, elapsed,
                   stdout, stderr, outFile, exitCode>>
    /\ UNCHANGED <<benchVars, runVars>>

\* end_time = clock(); time_taken = (end_time - start_time) / CLOCKS_PER_SEC
StopClock ==
    /\ pc = "clock_end"
    /\ elapsed' \in ElapsedTicks
    /\ events' = Append(events, "clock")
    /\ pc' = "dispatch"
    /\ UNCHANGED <<program, argv, opts, fileText, corpusVars, stdout, stderr,
                   outFile, exitCode>>
    /\ UNCHANGED <<benchVars, runVars>>

\* raw mode, then formatted-only mode, else on to the full report
DispatchMode ==
    /\ pc = "dispatch"
    /\ IF opts.benchTimeMode
       THEN /\ stdout' = Append(stdout, [kind |-> "raw_time",
                                         text |-> raw_time_line(elapsed)])
            /\ Return(0)
       ELSE IF opts.timeOnly
       THEN /\ stdout' = Append(stdout,
                                [kind |-> "formatted_time",
                                 text |-> <<format_time_unit(elapsed)>>])
            /\ Return(0)
       ELSE /\ pc' = "report"
            /\ UNCHANGED <<stdout, exitCode>>
    /\ UNCHANGED <<program, argv, opts, fileText, corpusVars, elapsed, stderr,
                   outFile, events>>
    /\ UNCHANGED <<benchVars, runVars>>

\* the full report on stdout
ConsoleReport ==
    <<Item("original_array"), Item("sorted_array"), Item("performance"),
      Item("algorithm")>>

\* the full report: to output/<basename> when the input came from a file and
\* no output file was opened, to the output file when one was opened, to
\* stdout otherwise
WriteReport ==
    /\ pc = "report"
    /\ IF opts.usingFiles /\ opts.outputFile = "NULL"
       THEN \/ /\ stderr' = Append(stderr, Item("error_directory"))
               /\ Return(1)
               /\ UNCHANGED <<stdout, outFile, events>>
            \/ \E created \in BOOLEAN :
                  LET notice == IF created THEN <<Item("created_directory")>>
                                ELSE <<>>
                  IN  \/ /\ stdout' = stdout \o notice \o
                                      <<Item("error_output_file")>>
                         /\ events' = Append(events, "fopen_output")
                         /\ Return(1)
                         /\ UNCHANGED <<stderr, outFile>>
                      \/ /\ stdout' = stdout \o notice \o
                                      <<Item("writing_to")>>
                         /\ events' = events \o <<"fopen_output",
                                                  "write_report", "fclose_output">>
                         /\ outFile' = "closed_report"
                         /\ Return(0)
                         /\ UNCHANGED stderr
       ELSE IF opts.outputFile # "NULL"
       THEN /\ events' = events \o <<"write_report", "fclose_output">>
            /\ outFile' = "closed_report"
            /\ Return(0)
            /\ UNCHANGED <<stdout, stderr>>
       ELSE /\ stdout' = stdout \o ConsoleReport
            /\ Return(0)
            /\ UNCHANGED <<stderr, outFile, events>>
    /\ UNCHANGED <<program, argv, opts, fileText, corpusVars, elapsed>>
    /\ UNCHANGED <<benchVars, runVars>>

Next ==
    \/ ParseArguments
    \/ OpenInputFile
    \/ ValidateArguments
    \/ ReadCorpusFromFile
    \/ ReadCorpusFromArguments
    \/ CopyOriginal
    \/ StartClock
    \/ SortCorpus
    \/ StopClock
    \/ DispatchMode
    \/ WriteReport

Spec == Init /\ [][Next]_vars

(***************************************************************************)
(* format_time on durations from 0 to MaxSeconds seconds.                  *)
(***************************************************************************)
MaxSeconds == 5

\* the billionths of the model: the unit boundaries and their neighbours,
\* values that round down, up, and on a tie, and the half second
Nanos ==
    {0, 1, 500, 999, 1000, 1001, 1004, 1005, 1006, 1500, 999994, 999995,
     999999, 1000000, 1000001, 1234567, 1234999, 1235000, 1235001, 2000000,
     4999999, 5000000, 5000001, 500000000, 999994999, 999995000, 999999999}

FormatInit ==
    /\ time_seconds \in [sec : 0..MaxSeconds, nano : Nanos]
    /\ buffer = <<>>
    /\ bench = [pc |-> "idle"]
    /\ fileText = <<>>
    /\ a = EmptyArray
    /\ n = 0
    /\ aPtr = "NULL"
    /\ original = EmptyArray
    /\ lastOp = "none"
    /\ calls = 0
    /\ program = "none"
    /\ argv = <<>>
    /\ pc = "idle"
    /\ opts = InitialOptions
    /\ elapsed = 0
    /\ stdout = <<>>
    /\ stderr = <<>>
    /\ outFile = "unopened"
    /\ exitCode = -1
    /\ events = <<>>
    /\ RunIdle

\* format_time(time_seconds, buffer, sizeof(buffer))
CallFormatTime ==
    /\ lastOp = "none"
    /\ \E tie_up \in BOOLEAN : buffer' = format_time(time_seconds, tie_up)
    /\ lastOp' = "format_time"
    /\ UNCHANGED <<program, argv, pc, opts, fileText, a, n, aPtr, original,
                   calls, elapsed, stdout, stderr, outFile, exitCode, events,
                   time_seconds, bench, frames, touched, hinted>>

FormatNext == CallFormatTime

SpecFormat == FormatInit /\ [][FormatNext]_vars

(***************************************************************************)
(* benchmark.c: measure_sort_time(sort_path, input_file, repeats).  Each   *)
(* pass of its loop runs the sorter once with system() and reads the time  *)
(* the sorter printed.  Times are in billionths of a second.               *)
(*   bench.pc           "entry", "loop", "returned"                        *)
(*   bench.repeats      the argument repeats                               *)
(*   bench.i            the loop counter                                   *)
(*   bench.total_time, bench.successful_runs   the two accumulators        *)
(*   bench.invocations  the system() calls made: the pass each was made    *)
(*                      in and how it ended                                *)
(*   bench.ret          "pending", then "minus_one" for -1.0 or "mean"     *)
(*                      for total_time / successful_runs                   *)
(*   bench.temp_files   the passes whose temporary output file exists      *)
(***************************************************************************)
MaxRepeats == 3

\* the times a sorter run may print
TrialTimes == {0, 1000, 3000}

\* how one pass of the loop can end: the command fails, the output file
\* cannot be opened, it is empty, its line is no number, or a time is read
TrialOutcomes ==
    {[kind |-> k, time |-> 0] :
        k \in {"command_failed", "no_output_file", "no_output", "unparsable"}}
    \cup {[kind |-> "time", time |-> t] : t \in TrialTimes}

BenchInit ==
    /\ \E r \in 1..MaxRepeats :
          bench = [pc |-> "entry", repeats |-> r, i |-> 0, total_time |-> 0,
                   successful_runs |-> 0, invocations |-> <<>>,
                   ret |-> "pending", temp_files |-> {}]
    /\ time_seconds = [sec |-> 0, nano |-> 0]
    /\ buffer = <<>>
    /\ fileText = <<>>
    /\ a = EmptyArray
    /\ n = 0
    /\ aPtr = "NULL"
    /\ original = EmptyArray
    /\ lastOp = "none"
    /\ calls = 0
    /\ program = "none"
    /\ argv = <<>>
    /\ pc = "idle"
    /\ opts = InitialOptions
    /\ elapsed = 0
    /\ stdout = <<>>
    /\ stderr = <<>>
    /\ outFile = "unopened"
    /\ exitCode = -1
    /\ events = <<>>
    /\ RunIdle

\* everything but bench
notBenchVars ==
    <<program, argv, pc, opts, fileText, a, n, aPtr, original, lastOp, calls,
      elapsed, stdout, stderr, outFile, exitCode, events, time_seconds,
      buffer, frames, touched, hinted>>

\* the checks before the loop: sorter binary and input file exist and the
\* input file can be opened, or -1.0 is returned
MeasureEntry ==
    /\ bench.pc = "entry"
    /\ \/ bench' = [bench EXCEPT !.pc = "loop"]
       \/ bench' = [bench EXCEPT !.pc = "returned", !.ret = "minus_one"]
    /\ UNCHANGED notBenchVars

\* the time a pass adds to total_time, and whether it adds one: a time that
\* was read counts when it is above zero
counted_time(o) ==
    [counted |-> o.kind = "time" /\ o.time > 0, time |-> o.time]

\* one pass of the for loop: system(command), whose redirection creates the
\* temporary file, then the output file is read and unlinked; every failure
\* unlinks it too and goes on to the next pass with continue
RunTrial ==
    /\ bench.pc = "loop"
    /\ bench.i < bench.repeats
    /\ \E o \in TrialOutcomes :
          LET c == counted_time(o)
          IN  bench' = [bench EXCEPT
                  !.invocations = Append(@, [pass |-> bench.i, outcome |-> o]),
                  !.temp_files = (@ \cup {bench.i}) \ {bench.i},
                  !.total_time = IF c.counted THEN @ + c.time ELSE @,
                  !.successful_runs = IF c.counted THEN @ + 1 ELSE @,
                  !.i = @ + 1]
    /\ UNCHANGED notBenchVars

\* after the loop: the mean of the successful runs, or -1.0 without one
MeasureReturn ==
    /\ bench.pc = "loop"
    /\ ~(bench.i < bench.repeats)
    /\ bench' = [bench EXCEPT
           !.pc = "returned",
           !.ret = IF bench.successful_runs > 0 THEN "mean" ELSE "minus_one"]
    /\ UNCHANGED notBenchVars

BenchNext == MeasureEntry \/ RunTrial \/ MeasureReturn

SpecBench == BenchInit /\ [][BenchNext]_vars

(***************************************************************************)
(* Claims on the sort functions, checked under SpecSort.                   *)
(***************************************************************************)
\* C1: after heapSort(a, n) returns, a[i] <= a[j] for all 0 <= i < j < n,
\* for every length n on either side of the insertion-sort threshold.
C1_HeapSortSorts == lastOp = "heapSort" => IsSorted(a, n)

\* heapSort has run on an unsorted array longer than the threshold
C1_Witness ==
    /\ lastOp = "heapSort"
    /\ calls = 1
    /\ n = INSERTION_SORT_THRESHOLD + 1
    /\ ~IsSorted(original, n)
    /\ IsSorted(a, n)

\* C2: after quickSort(a, n) returns, a[i] <= a[j] for all 0 <= i < j < n,
\* also for inputs with many duplicates, sorted and reverse-sorted inputs.
C2_QuickSortSorts == lastOp = "quickSort" => IsSorted(a, n)

\* quickSort has partitioned an unsorted array with duplicate values
C2_Witness ==
    /\ lastOp = "quickSort"
    /\ calls = 1
    /\ n > INSERTION_SORT_THRESHOLD
    /\ ~IsSorted(original, n)
    /\ \E i \in 0..(n - 1) : Occurrences(original, n, original[i]) > 1
    /\ IsSorted(a, n)

\* C3: the multiset of values of a[0..n) after heapSort(a, n) is the one
\* before the call, and the array keeps its length n.
C3_HeapSortPermutes ==
    (lastOp = "heapSort" /\ calls = 1) =>
        /\ DOMAIN a = 0..(n - 1)
        /\ SameMultiset(a, original, n)

\* heapSort has moved elements of an array that went through the heap phase
C3_Witness ==
    /\ lastOp = "heapSort"
    /\ calls = 1
    /\ n > INSERTION_SORT_THRESHOLD + 1
    /\ a # original
    /\ SameMultiset(a, original, n)

\* C4: the multiset of values of a[0..n) after quickSort(a, n) is the one
\* before the call.
C4_QuickSortPermutes ==
    (lastOp = "quickSort" /\ calls = 1) =>
        /\ DOMAIN a = 0..(n - 1)
        /\ SameMultiset(a, original, n)

\* quickSort has moved elements of an array long enough to be partitioned
C4_Witness ==
    /\ lastOp = "quickSort"
    /\ calls = 1
    /\ n > INSERTION_SORT_THRESHOLD
    /\ a # original
    /\ SameMultiset(a, original, n)

\* C5: blockHeapSort(a, n) leaves a in the same final sequence as
\* heapSort(a, n) run on a copy of the same input.
C5_BlockEqualsHeapSort ==
    (lastOp = "blockHeapSort" /\ calls = 1) => a = heapSort(original, n)

\* blockHeapSort has run on an array whose last block is shorter than
\* block_size
C5_Witness ==
    /\ lastOp = "blockHeapSort"
    /\ calls = 1
    /\ n > block_size + 1
    /\ (n - 1) % block_size # 0
    /\ a # original
    /\ a = heapSort(original, n)

(***************************************************************************)
(* The corpus as section 4.1 of the specification defines it: the text is  *)
(* split at the delimiters, and a token is a valid integer when it is an   *)
(* optional sign followed by decimal digits only.                          *)
(***************************************************************************)
Delimiters == {" ", "\t", "\n", ",", ";"}

\* the tokens of text from pos on; cur is the token being collected
RECURSIVE TokensFrom(_, _, _)
TokensFrom(text, pos, cur) ==
    IF pos > Len(text)
    THEN IF cur = <<>> THEN <<>> ELSE <<cur>>
    ELSE IF text[pos] \in Delimiters
    THEN (IF cur = <<>> THEN <<>> ELSE <<cur>>) \o TokensFrom(text, pos + 1, <<>>)
    ELSE TokensFrom(text, pos + 1, Append(cur, text[pos]))

TokensOf(text) == TokensFrom(text, 1, <<>>)

UnsignedPart(tok) == IF tok[1] \in {"-", "+"} THEN Tail(tok) ELSE tok

IsValidIntegerToken(tok) ==
    /\ UnsignedPart(tok) # <<>>
    /\ \A k \in 1..Len(UnsignedPart(tok)) : IsDigit(UnsignedPart(tok)[k])

RECURSIVE DecimalValue(_)
DecimalValue(digits) ==
    IF digits = <<>> THEN 0
    ELSE 10 * DecimalValue(SubSeq(digits, 1, Len(digits) - 1))
         + DigitValue(digits[Len(digits)])

TokenValue(tok) ==
    IF tok[1] = "-" THEN 0 - DecimalValue(Tail(tok))
    ELSE DecimalValue(UnsignedPart(tok))

\* the values of the valid integer tokens of text, in file order
ValidIntegers(text) ==
    LET valid == SelectSeq(TokensOf(text), IsValidIntegerToken)
    IN  [k \in 1..Len(valid) |-> TokenValue(valid[k])]

Range(seq) == {seq[k] : k \in 1..Len(seq)}

\* text is integers and separators only, and starts with an integer
IsSeparatedIntegers(text) ==
    /\ TokensOf(text) # <<>>
    /\ text[1] \notin Delimiters
    /\ \A k \in 1..Len(TokensOf(text)) : IsValidIntegerToken(TokensOf(text)[k])

\* readIntegers has returned and no allocation failed in it
ReaderReturned == lastOp = "readIntegers" /\ pc = "idle" /\ events = <<>>

(***************************************************************************)
(* Claims on readIntegers of common.c, checked under SpecRead.             *)
(***************************************************************************)
\* C6: for a text whose integers are separated by any mixture of spaces,
\* tabs, newlines, commas and semicolons, readIntegers returns exactly those
\* integers in file order; a comma or semicolon does not end ingestion.
C6_SeparatorsTolerated ==
    (ReaderReturned /\ IsSeparatedIntegers(fileText)) =>
        /\ aPtr = "valid"
        /\ ArrayToSeq(a, n) = ValidIntegers(fileText)

\* C7: readIntegers returns the values of exactly the syntactically valid
\* integer tokens, in order, and *count is their number; a malformed token
\* is skipped and the valid tokens after it are still returned.  Stated for
\* the texts without comma and semicolon, whose tokens white space separates.
C7_ValidTokensReturned ==
    (/\ ReaderReturned
     /\ ValidIntegers(fileText) # <<>>
     /\ Range(fileText) \cap {",", ";"} = {}) =>
        /\ aPtr = "valid"
        /\ n = Len(ValidIntegers(fileText))
        /\ ArrayToSeq(a, n) = ValidIntegers(fileText)

\* What readIntegers does return: the integers fscanf reads before the first
\* character that is neither white space nor part of a number.  These are
\* the valid tokens of every text whose tokens are separated by white space
\* only and are all valid.
ReaderOnWhiteSpaceOnly ==
    (/\ ReaderReturned
     /\ IsSeparatedIntegers(fileText)
     /\ Range(fileText) \cap {",", ";"} = {}) =>
        /\ aPtr = "valid"
        /\ ArrayToSeq(a, n) = ValidIntegers(fileText)

(***************************************************************************)
(* Claims on main, checked under Spec.                                     *)
(***************************************************************************)
\* the kinds of the pieces written to a stream
Kinds(stream) == {stream[k].kind : k \in 1..Len(stream)}

\* main has returned (it was not killed) after reading the input file
ExitedAfterFileRead ==
    /\ pc = "exit"
    /\ exitCode # SIGSEGV_STATUS
    /\ opts.usingFiles
    /\ "read" \in Range(events)

\* no elapsed time and no report has been written anywhere
NoTimingOrReport ==
    /\ Kinds(stdout) \cap {"raw_time", "formatted_time", "original_array",
                           "sorted_array", "performance", "algorithm",
                           "writing_to"} = {}
    /\ outFile # "closed_report"

\* C8: when the input file contains zero valid integers, readIntegers returns
\* NULL and main treats it as fatal: no sort function is called, no timing or
\* report output is produced, and the process exits with code 1.
C8_EmptyCorpusIsFatal ==
    (ExitedAfterFileRead /\ ValidIntegers(fileText) = <<>>) =>
        /\ aPtr = "NULL"
        /\ calls = 0
        /\ NoTimingOrReport
        /\ exitCode = 1

\* The part of C8 the code keeps: when fscanf reads no integer at the start
\* of the file, readIntegers returns NULL and main exits with code 1 without
\* sorting or reporting.
NullCorpusIsFatal ==
    (ExitedAfterFileRead /\ countIntegers(fileText) = 0) =>
        /\ aPtr = "NULL"
        /\ calls = 0
        /\ NoTimingOrReport
        /\ exitCode = 1

\* the modes whose output the invocation has produced
ProducedModes ==
    {m \in {"raw", "formatted", "full"} :
        \/ m = "raw" /\ "raw_time" \in Kinds(stdout)
        \/ m = "formatted" /\ "formatted_time" \in Kinds(stdout)
        \/ m = "full" /\ (outFile = "closed_report"
                          \/ "sorted_array" \in Kinds(stdout))}

\* the mode the flags ask for: raw, then formatted-only, then full report
ModeOf(flags) ==
    IF "--bench-time" \in flags THEN "raw"
    ELSE IF "--time-only" \in flags THEN "formatted"
    ELSE "full"

\* the arguments from args[i] on that are not the file name after -f or -o
RECURSIVE OptionArgsFrom(_, _)
OptionArgsFrom(args, i) ==
    IF i > Len(args) THEN {}
    ELSE IF args[i] \in {"-f", "-o"} /\ i + 1 <= Len(args)
    THEN {args[i]} \cup OptionArgsFrom(args, i + 2)
    ELSE {args[i]} \cup OptionArgsFrom(args, i + 1)

\* C9 as stated: for every command line, an invocation in which the sort ran
\* and which exits with code 0 produces the output of exactly one mode, raw
\* if --bench-time appears anywhere on the command line, otherwise
\* formatted-only if --time-only appears, otherwise the full report.
C9_ModeByFlagsAnywhere ==
    (pc = "exit" /\ exitCode = 0 /\ calls = 1) =>
        ProducedModes = {ModeOf(Range(argv))}

\* C9 as amended: for every command line and every order of its flags, an
\* invocation in which the sort ran and which exits with code 0 produces the
\* output of exactly one mode: raw if --bench-time appears anywhere but as
\* the file name after -f or -o, otherwise formatted-only if --time-only
\* appears so, otherwise the full report.
C9_ModeByParsedFlags ==
    (pc = "exit" /\ exitCode = 0 /\ calls = 1) =>
        ProducedModes = {ModeOf(OptionArgsFrom(argv, 1))}

\* --time-only comes first, --bench-time after it, and the output is the raw
\* line alone
C9_Witness ==
    /\ pc = "exit"
    /\ exitCode = 0
    /\ calls = 1
    /\ Len(argv) >= 3
    /\ argv[1] = "--time-only"
    /\ argv[2] = "--bench-time"
    /\ ProducedModes = {"raw"}

\* line is digits, a point and exactly nine digits
IsRawTimeLine(line) ==
    \E k \in 2..Len(line) :
        /\ line[k] = "."
        /\ \A j \in 1..(k - 1) : IsDigit(line[j])
        /\ Len(line) = k + 9
        /\ \A j \in (k + 1)..Len(line) : IsDigit(line[j])

\* C10: in an invocation with --bench-time (and without -h or --help),
\* nothing is written to stdout during the whole invocation but the one line
\* holding the elapsed seconds with 9 fractional digits: no usage text and
\* no error message.
C10_RawModeStdout ==
    (/\ pc = "exit"
     /\ opts.benchTimeMode
     /\ Range(argv) \cap {"-h", "--help"} = {}) =>
        /\ Len(stdout) <= 1
        /\ \A k \in 1..Len(stdout) :
              /\ stdout[k].kind = "raw_time"
              /\ IsRawTimeLine(stdout[k].text)

\* The part of C10 the code keeps: when the sort ran and main returns 0 in
\* raw mode, stdout holds the one line and nothing else.
RawModeStdoutOnSuccess ==
    (pc = "exit" /\ opts.benchTimeMode /\ exitCode = 0 /\ calls = 1) =>
        /\ Len(stdout) = 1
        /\ stdout[1].kind = "raw_time"
        /\ IsRawTimeLine(stdout[1].text)

\* -h or --help is on the command line, not as the file name after -f or -o
HelpRequested == OptionArgsFrom(argv, 1) \cap {"-h", "--help"} # {}

\* the sort ran and the output of the selected mode was produced
SortedAndReported ==
    calls = 1 /\ ProducedModes = {ModeOf(OptionArgsFrom(argv, 1))}

\* a message of one of the fatal errors has been written: input file missing
\* or unreadable, empty corpus, failed allocation of the corpus or of the
\* snapshot, output file or output directory not writable
FatalErrorReported ==
    \/ Kinds(stderr) \cap {"error_input_file", "error_output_file",
                           "error_directory"} # {}
    \/ Kinds(stdout) \cap {"error_no_integers", "error_allocation",
                           "error_output_file"} # {}

Positions(step) == {k \in 1..Len(events) : events[k] = step}

\* the opening of a report destination for writing has failed
OutputOpenFailed ==
    "error_output_file" \in (Kinds(stderr) \cup Kinds(stdout))

\* C12: when an input file is given and the report destination cannot be
\* opened for writing, with -o or at the default output/<basename>, main
\* exits 1 only after the input file has been opened and the corpus read
\* from it.
C12_OutputFailureAfterInput ==
    (pc = "exit" /\ opts.usingFiles /\ OutputOpenFailed) =>
        /\ exitCode = 1
        /\ Positions("fopen_input") # {}
        /\ Positions("read") # {}

\* The part of C12 the code keeps: the failure to create output/<basename>
\* is met after the corpus has been read and sorted.
DefaultOutputFailureAfterInput ==
    (pc = "exit" /\ "error_output_file" \in Kinds(stdout)) =>
        /\ exitCode = 1
        /\ Positions("read") # {}
        /\ calls = 1

\* C13: on every exit path of main but the help request, an output file
\* named with -o is never left open or left behind empty: it is either
\* never opened, or it has received the complete report and been closed.
C13_OutputFileNotLeftOpen ==
    (pc = "exit" /\ ~HelpRequested) =>
        /\ outFile \in {"unopened", "closed_report"}
        /\ opts.out_opens <= 1

\* The part of C13 the code keeps: when main reaches the full report with
\* one -o file, the file receives the report and is closed.
OutputFileClosedAfterReport ==
    (/\ pc = "exit"
     /\ exitCode = 0
     /\ calls = 1
     /\ opts.out_opens = 1
     /\ ModeOf(OptionArgsFrom(argv, 1)) = "full") => outFile = "closed_report"

\* the clock has been read once and not yet the second time
WindowOpen == Cardinality(Positions("clock")) = 1

\* C14: the timed window contains exactly one sort call and nothing else.
\* The clock is read at most twice; the first reading comes after the read of
\* the corpus and the copy of the snapshot; with both readings taken, the one
\* step between them is the sort; no timing and no report is written before
\* the second reading; and while the window is open the only steps are the
\* sort and the second reading, with nothing written to stdout, stderr or
\* the output file.
C14_TimedWindow ==
    /\ [](/\ Cardinality(Positions("clock")) <= 2
          /\ \A k \in Positions("clock") :
                /\ \E c \in Positions("copy") : c < k
                /\ opts.usingFiles => \E r \in Positions("read") : r < k
          /\ \A k1 \in Positions("clock") : \A k2 \in Positions("clock") :
                k1 < k2 => (k2 = k1 + 2 /\ events[k1 + 1] = "sort")
          /\ Cardinality(Positions("clock")) < 2 => NoTimingOrReport)
    /\ [][WindowOpen =>
            /\ UNCHANGED <<stdout, stderr, outFile, fileText>>
            /\ \/ events' = Append(events, "sort") /\ calls' = calls + 1
               \/ events' = Append(events, "clock") /\ calls' = calls
               \/ UNCHANGED <<events, calls>>]_vars

\* both clock readings are taken, around one sort of a corpus read from a
\* file, and the raw time has been written after them
C14_Witness ==
    /\ pc = "exit"
    /\ opts.usingFiles
    /\ Cardinality(Positions("clock")) = 2
    /\ calls = 1
    /\ "raw_time" \in Kinds(stdout)

(***************************************************************************)
(* The two readers compared, checked under SpecRead.                       *)
(***************************************************************************)
\* readIntegers of main.c has returned and its allocation did not fail
MainReaderReturned ==
    lastOp = "main_readIntegers" /\ pc = "idle" /\ events = <<>>

\* C17: for every input text, readIntegers of main.c and readIntegers of
\* common.c return the identical sequence: both NULL, or the same length
\* and the same values in the same order.  Stated for the texts that start
\* with a digit and hold no sign.
C17_ReadersAgree ==
    (/\ MainReaderReturned
     /\ fileText # <<>>
     /\ IsDigit(fileText[1])
     /\ Range(fileText) \cap {"-", "+"} = {}) =>
        LET r == readIntegers(fileText, TRUE, TRUE)
        IN  /\ (aPtr = "NULL") <=> r.null
            /\ ArrayToSeq(a, n) = ArrayToSeq(r.array, r.count)

\* Where the two readers do agree: on the texts whose tokens are all valid
\* integers with a digit, separated by white space only.
ReadersAgreeOnWhiteSpaceOnly ==
    (/\ MainReaderReturned
     /\ IsSeparatedIntegers(fileText)
     /\ Range(fileText) \cap {",", ";"} = {}) =>
        LET r == readIntegers(fileText, TRUE, TRUE)
        IN  /\ (aPtr = "NULL") <=> r.null
            /\ ArrayToSeq(a, n) = ArrayToSeq(r.array, r.count)

(***************************************************************************)
(* Claims on format_time, checked under SpecFormat.                        *)
(***************************************************************************)
\* the position of the point and of the blank in the formatted text
PointAt(text) == CHOOSE k \in 1..Len(text) : text[k] = "."

BlankAt(text) == CHOOSE k \in 1..Len(text) : text[k] = " "

\* the number printed, in hundredths of the unit
PrintedHundredths(text) ==
    100 * DecimalValue(SubSeq(text, 1, PointAt(text) - 1)) +
    DecimalValue(SubSeq(text, PointAt(text) + 1, BlankAt(text) - 1))

\* the unit suffix
PrintedUnit(text) == SubSeq(text, BlankAt(text) + 1, Len(text))

\* the unit the magnitude asks for, a boundary falling into the larger unit
UnitByMagnitude(t) ==
    IF t.sec >= 1 THEN <<"s">>
    ELSE IF t.nano >= 1000000 THEN <<"m", "s">>
    ELSE IF t.nano >= 1000 THEN <<"μ", "s">>
    ELSE <<"n", "s">>

\* h hundredths of a unit of scale billionths (1, 1000 or 1000000) are
\* within half a hundredth of nano billionths
NearestHundredth(h, scale, nano) ==
    IF scale = 1 THEN h = 100 * nano
    ELSE LET step == scale \div 100
         IN  /\ 2 * (h * step - nano) <= step
             /\ 2 * (nano - h * step) <= step

\* C15: format_time chooses the unit by magnitude, a boundary falling into
\* the larger unit, scales the value by 1e9, 1e6, 1e3 or 1 and prints it with
\* two fractional digits and the unit suffix; 0.5 s gives "500.00 ms" and
\* 5.0 s gives "5.00 s".
C15_FormatTime ==
    lastOp = "format_time" =>
        LET t == time_seconds
            h == PrintedHundredths(buffer)
            u == PrintedUnit(buffer)
        IN  /\ u = UnitByMagnitude(t)
            /\ BlankAt(buffer) = PointAt(buffer) + 3
            /\ \A k \in 1..(BlankAt(buffer) - 1) :
                  k # PointAt(buffer) => IsDigit(buffer[k])
            /\ u = <<"n", "s">> => NearestHundredth(h, 1, t.nano)
            /\ u = <<"μ", "s">> => NearestHundredth(h, 1000, t.nano)
            /\ u = <<"m", "s">> => NearestHundredth(h, 1000000, t.nano)
            /\ u = <<"s">> =>
                  /\ h \div 100 \in {t.sec, t.sec + 1}
                  /\ NearestHundredth(h - 100 * t.sec, 1000000000, t.nano)
            /\ (t = [sec |-> 0, nano |-> 500000000]) =>
                  buffer = <<"5", "0", "0", ".", "0", "0", " ", "m", "s">>
            /\ (t = [sec |-> 5, nano |-> 0]) =>
                  buffer = <<"5", ".", "0", "0", " ", "s">>

\* the boundary of one millisecond has been formatted, in milliseconds
C15_Witness ==
    /\ lastOp = "format_time"
    /\ time_seconds = [sec |-> 0, nano |-> 1000000]
    /\ buffer = <<"1", ".", "0", "0", " ", "m", "s">>

(***************************************************************************)
(* Claims on measure_sort_time, checked under SpecBench.                   *)
(***************************************************************************)
\* the sorter run ended in one of the failures: non-zero exit, output file
\* missing or empty, time not parseable
FailedRun(inv) == inv.outcome.kind # "time"

\* C16: a trial that fails (sorter exits non-zero, output file missing or
\* empty, or time not parseable) is retried by running the sorter again for
\* it, instead of being dropped from the measurement.
C16_FailedTrialRetried ==
    bench.pc = "returned" =>
        \A k \in 1..Len(bench.invocations) :
            FailedRun(bench.invocations[k]) =>
                \E j \in (k + 1)..Len(bench.invocations) :
                    bench.invocations[j].pass = bench.invocations[k].pass

\* What measure_sort_time does: it runs the sorter exactly once per pass,
\* repeats times in all, and a failed run only lowers the number of runs the
\* mean is taken over.
OneRunPerPass ==
    (bench.pc = "returned" /\ bench.invocations # <<>>) =>
        /\ Len(bench.invocations) = bench.repeats
        /\ \A k \in 1..Len(bench.invocations) :
              bench.invocations[k].pass = k - 1
        /\ bench.successful_runs =
              Cardinality({k \in 1..Len(bench.invocations) :
                              /\ ~FailedRun(bench.invocations[k])
                              /\ bench.invocations[k].outcome.time > 0})

(***************************************************************************)
(* Further claims on the sort functions, checked under SpecSort.           *)
(***************************************************************************)
\* C18: heapSort, blockHeapSort and quickSort leave an array that is already
\* in ascending order unchanged at every position, whatever its length and
\* with or without duplicates; so a second sort gives what the first gave.
C18_Idempotent ==
    [][(IsSorted(a, n) /\ calls' = calls + 1) => a' = a]_vars

\* a sort has run for the second time, on an array longer than the
\* threshold that holds duplicates
C18_Witness ==
    /\ calls = 2
    /\ n > INSERTION_SORT_THRESHOLD
    /\ \E i \in 0..(n - 2) : a[i] = a[i + 1]
    /\ \E i \in 0..(n - 2) : a[i] < a[i + 1]

\* the median of three values
MedianOf(x, y, z) ==
    CHOOSE v \in {x, y, z} :
        /\ Cardinality({k \in 1..3 : <<x, y, z>>[k] <= v}) >= 2
        /\ Cardinality({k \in 1..3 : <<x, y, z>>[k] >= v}) >= 2

\* quickSort has run once, on the array kept in original
QuickSortRanOnce == lastOp = "quickSort" /\ calls = 1

\* C19: in every call partition(a, low, high), the value used as the pivot
\* in the Lomuto loop is the median of a[low], a[low + (high - low) / 2] and
\* a[high] as they were on entry.
C19_PivotIsMedian ==
    QuickSortRanOnce =>
        \A c \in quickSort_trace(original, n).partitions :
            partition(c.a, c.low, c.high).pivot =
                MedianOf(c.a[c.low], c.a[c.low + ((c.high - c.low) \div 2)],
                         c.a[c.high])

\* What the pivot is: the value that was at a[high - 1] when median_of_three
\* returned, which the swap of a[high] and a[high - 1] brings to a[high];
\* the median stays at a[mid].
PivotIsNextToLast ==
    QuickSortRanOnce =>
        \A c \in quickSort_trace(original, n).partitions :
            partition(c.a, c.low, c.high).pivot =
                median_of_three(c.a, c.low, c.high)[c.high - 1]

\* floor(log2(x)) for x >= 1
RECURSIVE Log2Floor(_)
Log2Floor(x) == IF x <= 1 THEN 0 ELSE 1 + Log2Floor(x \div 2)

\* C20: for every input of length n >= 1 the nesting depth of the
\* quicksort_internal calls never exceeds floor(log2(n)) + 1, and each
\* recursive call is made on a range with at most half of the elements of
\* the caller's current range, the other side being left to the loop.
C20_RecursionDepth ==
    (QuickSortRanOnce /\ n >= 1) =>
        LET t == quickSort_trace(original, n)
        IN  /\ t.a = a
            /\ t.depth <= Log2Floor(n) + 1
            /\ \A r \in t.recursions : 2 * r.callee <= r.caller

\* quickSort has made a recursive call inside a recursive call
C20_Witness ==
    /\ QuickSortRanOnce
    /\ quickSort_trace(original, n).depth >= 3


\* C21: for every call partition(a, low, high) made by quicksort_internal,
\* the index p returned is within low..high, every element of a[low..p-1] is
\* at most a[p], every element of a[p+1..high] is at least a[p], a[p] holds
\* the value the loop compared with, and nothing outside a[low..high] has
\* changed.
C21_PartitionPostcondition ==
    QuickSortRanOnce =>
        \A c \in quickSort_trace(original, n).partitions :
            LET r == partition(c.a, c.low, c.high)
            IN  /\ c.low <= r.pi /\ r.pi <= c.high
                /\ \A k \in c.low..(r.pi - 1) : r.a[k] <= r.a[r.pi]
                /\ \A k \in (r.pi + 1)..c.high : r.a[k] >= r.a[r.pi]
                /\ r.a[r.pi] = r.pivot
                /\ \A k \in 0..(n - 1) :
                       (k < c.low \/ k > c.high) => r.a[k] = c.a[k]

\* partition has returned an index with elements on both sides of it, one of
\* them equal to the pivot
C21_Witness ==
    /\ QuickSortRanOnce
    /\ \E c \in quickSort_trace(original, n).partitions :
           LET r == partition(c.a, c.low, c.high)
           IN  /\ c.low < r.pi /\ r.pi < c.high
               /\ \E k \in c.low..(r.pi - 1) : r.a[k] = r.pivot
               /\ \E k \in (r.pi + 1)..c.high : r.a[k] > r.pivot

\* one heap sort has run, on the array of more than 16 elements kept in
\* original
HeapSortRanOnce ==
    /\ calls = 1
    /\ n > INSERTION_SORT_THRESHOLD
    /\ lastOp \in {"heapSort", "main_heapSort"}

\* C22: for every input with n > 16 the hybrid heapSort of heapsort_f.c,
\* which leaves the extraction loop when the heap has at most 16 elements and
\* insertion-sorts that prefix, ends with the same array as the plain
\* heapSort of main.c, which runs the extraction to completion.
C22_HybridEqualsPlain ==
    HeapSortRanOnce =>
        /\ a = heapSort(original, n)
        /\ a = main_heapSort(original, n)

\* the hybrid heapSort has sorted an array of more than 16 elements that was
\* not in order, with duplicates in it
C22_Witness ==
    /\ HeapSortRanOnce
    /\ lastOp = "heapSort"
    /\ ~IsSorted(original, n)
    /\ \E i, j \in 0..(n - 1) : i # j /\ original[i] = original[j]
    /\ a = main_heapSort(original, n)

\* b[0..len) is a max-heap
IsMaxHeap(b, len) == \A k \in 1..(len - 1) : b[(k - 1) \div 2] >= b[k]

\* heapSort or blockHeapSort has run once, on the array of more than 16
\* elements kept in original
HeapPhaseRanOnce ==
    /\ calls = 1
    /\ n > INSERTION_SORT_THRESHOLD
    /\ lastOp \in {"heapSort", "blockHeapSort"}

\* the arrays left by the calls heapify(a, i, 0) of the sort that has run
HeapsOfRun ==
    IF lastOp = "heapSort"
    THEN heapSort_heaps(original, n)
    ELSE blockHeapSort_heaps(original, n)

\* C23: after buildMaxHeap(a, n) the whole array is a max-heap, and after
\* each heapify(a, i, 0) of the extraction loops of heapSort and
\* blockHeapSort the prefix a[0..i) is a max-heap again, while a[i..n) holds
\* the n - i largest values in ascending order: it is already the end of the
\* sorted array and nothing before it is larger.  The calls are those of the
\* run: the last array of blockHeapSort is its result, and the last array of
\* heapSort gives its result after one more swap and the insertion sort.
C23_HeapInvariant ==
    HeapPhaseRanOnce =>
        LET heaps == HeapsOfRun
        IN  /\ IsMaxHeap(buildMaxHeap(original, n), n)
            /\ \A i \in 1..(n - 1) :
                   (lastOp = "blockHeapSort"
                    \/ i > INSERTION_SORT_THRESHOLD) =>
                       \E h \in heaps : h.i = i
            /\ \A h \in heaps :
                   /\ IsMaxHeap(h.a, h.i)
                   /\ \A k \in h.i..(n - 1) : h.a[k] = a[k]
                   /\ \A k \in 0..(h.i - 1) : h.a[k] <= h.a[h.i]
                   /\ (lastOp = "blockHeapSort" /\ h.i = 1) => h.a = a
                   /\ (lastOp = "heapSort"
                       /\ h.i = INSERTION_SORT_THRESHOLD + 1) =>
                          a = hs_insertion_sort(
                                  swap(h.a, 0, INSERTION_SORT_THRESHOLD),
                                  INSERTION_SORT_THRESHOLD)

\* blockHeapSort has run on an array that was no heap, with duplicates, and
\* has sifted a root down over a heap of more than one block
C23_Witness ==
    /\ HeapPhaseRanOnce
    /\ lastOp = "blockHeapSort"
    /\ ~IsMaxHeap(original, n)
    /\ \E i, j \in 0..(n - 1) : i # j /\ original[i] = original[j]
    /\ \E h \in HeapsOfRun : h.i > 2 * block_size /\ h.a[0] > h.a[h.i - 1]

\* number of elements of the range low..high
RangeLength(r) == r.high - r.low + 1

\* C24: quicksort_internal insertion-sorts a range directly exactly when the
\* range has fewer than 16 elements, and every range of 16 or more elements
\* is partitioned: no range passed to insertion_sort has 16 elements or
\* more, and no range passed to partition has fewer than 16.
C24_InsertionBelowThreshold ==
    QuickSortRanOnce =>
        LET t == quickSort_trace(original, n)
        IN  /\ \A r \in t.insertions : RangeLength(r) < INSERTION_SORT_THRESHOLD
            /\ \A c \in t.partitions : RangeLength(c) >= INSERTION_SORT_THRESHOLD

\* What the code does: the test is high - low < 16, so a range is
\* insertion-sorted when it has 2 to 16 elements and partitioned when it has
\* 17 or more.
InsertionUpToThreshold ==
    QuickSortRanOnce =>
        LET t == quickSort_trace(original, n)
        IN  /\ t.a = a
            /\ \A r \in t.insertions :
                   /\ RangeLength(r) >= 2
                   /\ RangeLength(r) <= INSERTION_SORT_THRESHOLD
            /\ \A c \in t.partitions :
                   RangeLength(c) > INSERTION_SORT_THRESHOLD
            /\ (n = INSERTION_SORT_THRESHOLD) =>
                   /\ t.insertions = {[low |-> 0, high |-> n - 1]}
                   /\ t.partitions = {}
            /\ (n = INSERTION_SORT_THRESHOLD + 1) =>
                   \E c \in t.partitions : c.low = 0 /\ c.high = n - 1

\* token is an optional single leading sign followed by at least one
\* decimal digit
IsSignedInteger(token) ==
    /\ Len(token) > 0
    /\ LET digits == IF token[1] \in {"-", "+"} THEN Tail(token) ELSE token
       IN  /\ Len(digits) > 0
           /\ \A i \in 1..Len(digits) : IsDigit(digits[i])

\* the tokens of the file read, in order
TokensOfFile == main_tokens(fgets_lines(fileText, 1, <<>>), 1)

\* C25: the strtok-based reader of main.c counts and stores a token only if
\* it is an optional single leading sign followed by at least one decimal
\* digit: the corpus has one value per such token, in order, and a token
\* that is only "+" or "-" adds no value; all *count places are filled.
C25_OnlySignedIntegersStored ==
    MainReaderReturned =>
        LET stored == SelectSeq(TokensOfFile, IsSignedInteger)
        IN  /\ n = Len(stored)
            /\ n = main_countIntegers(fileText)
            /\ (aPtr = "valid") =>
                   /\ DOMAIN a = 0..(n - 1)
                   /\ \A k \in 0..(n - 1) : a[k] = main_atoi(stored[k + 1])

\* What the reader does: a token that is a sign alone passes the test of
\* both passes as well, is counted, and is stored as 0.
LoneSignStoredAsZero ==
    MainReaderReturned =>
        LET IsLoneSign(token) == token \in {<<"-">>, <<"+">>}
            Stored(token)     == IsSignedInteger(token) \/ IsLoneSign(token)
            stored            == SelectSeq(TokensOfFile, Stored)
        IN  /\ n = Len(stored)
            /\ n = main_countIntegers(fileText)
            /\ (aPtr = "valid") =>
                   /\ DOMAIN a = 0..(n - 1)
                   /\ \A k \in 0..(n - 1) :
                          a[k] = IF IsLoneSign(stored[k + 1]) THEN 0
                                 ELSE main_atoi(stored[k + 1])

\* The steps give what the sort functions compute: when the function called
\* has returned, the array is the one the function gives as a whole.
RunMatchesSort ==
    Returned =>
        a = CASE lastOp = "heapSort" -> heapSort(original, n)
              [] lastOp = "blockHeapSort" -> blockHeapSort(original, n)
              [] lastOp = "quickSort" -> quickSort(original, n)

\* In every state where the function called has not returned, the guard of
\* a step holds, and every step changes the calls in progress or returns.
StepEnabledIsEnabled ==
    /\ calls \in {0, 1}
    /\ StepEnabled =>
           \/ NotCalled
           \/ /\ frames # <<>>
              /\ \/ Top.fn \in {"buildMaxHeap", "heapify", "heapSort",
                                "quicksort_internal"}
                 \/ Top.fn = "blockHeapSort" /\ Top.inner \in BOOLEAN
    /\ ~StepEnabled => frames = <<>>

\* the number of calls in progress is the same before and after the step
\* and the innermost one is a call of fn
StaysIn(fn) ==
    /\ frames # <<>>
    /\ Len(frames') = Len(frames)
    /\ Top.fn = fn
    /\ frames'[Len(frames)].fn = fn

\* an iteration of the heapify loop that does not leave the loop moves to a
\* strictly larger index below the heap size
HeapifyVariant ==
    StaysIn("heapify") =>
        /\ frames'[Len(frames)].i > Top.i
        /\ frames'[Len(frames)].i < Top.n

\* an iteration of an extraction loop that makes the call of heapify has
\* strictly decreased the loop's index, which stays at 0 or above; a block
\* of blockHeapSort ends strictly below the end of the one before
ExtractionVariant ==
    (/\ frames # <<>>
     /\ Top.fn \in {"heapSort", "blockHeapSort"}
     /\ frames' # <<>>) =>
        LET f == frames'[Len(frames)]
        IN  /\ f.i <= Top.i /\ f.i >= 0
            /\ (Len(frames') > Len(frames)) => f.i < Top.i
            /\ (Top.fn = "blockHeapSort" /\ ~Top.inner) =>
                   f.block_end < Top.end /\ f.block_end >= 0

\* an iteration of quicksort_internal that partitions leaves the pivot index
\* out of both sides: the range of the recursive call and the range the
\* loop goes on with are within the range it had, on either side of an
\* index of that range, and so strictly shorter
QuickSortVariant ==
    (/\ frames # <<>>
     /\ Top.fn = "quicksort_internal"
     /\ Len(frames') > Len(frames)) =>
        LET next == frames'[Len(frames)]
            call == frames'[Len(frames')]
            lo   == IF call.low < next.low THEN call ELSE next
            hi   == IF call.low < next.low THEN next ELSE call
        IN  /\ lo.low = Top.low
            /\ hi.high = Top.high
            /\ lo.high + 2 = hi.low
            /\ lo.high + 1 \in Top.low..Top.high
            /\ call.high - call.low < Top.high - Top.low
            /\ next.high - next.low < Top.high - Top.low

\* C26: heapSort, blockHeapSort and quickSort terminate on every input
\* array: whichever is called returns, because each iteration of the heapify
\* loop moves to a strictly larger index below the heap size, each
\* extraction loop strictly decreases its index, and each iteration or
\* recursive call of quicksort_internal works on a range strictly shorter
\* than the one before, the pivot index being left out of both sides.
C26_SortsTerminate ==
    /\ <>Returned
    /\ [][HeapifyVariant /\ ExtractionVariant /\ QuickSortVariant]_vars

\* a sort function has returned from an array of MaxLen elements that was
\* not in order
C26_Witness ==
    /\ Returned
    /\ n = MaxLen
    /\ ~IsSorted(original, n)
    /\ IsSorted(a, n)

\* the step taken is one of the call fn
StepOf(fn) == frames # <<>> /\ Top.fn = fn

\* C27: during heapSort(a, n), blockHeapSort(a, n) and quickSort(a, n), for
\* every n >= 0, every array element read or written has an index in
\* 0..n-1.  In particular a step of quicksort_internal on low..high, which
\* is a partition with its accesses to a[high - 1] and a[i + 1] or an
\* insertion sort from start = low, stays within low..high; heapify reads
\* and writes below its heap size only; and the insertion sort of heapSort
\* stays below the heap it is given.
C27_IndicesInBounds ==
    /\ [](/\ touched \subseteq 0..(n - 1)
          /\ DOMAIN a = 0..(n - 1))
    /\ [][/\ StepOf("quicksort_internal") =>
                touched' \subseteq Top.low..Top.high
          /\ StepOf("heapify") => touched' \subseteq 0..(Top.n - 1)
          /\ StepOf("heapSort") => touched' \subseteq 0..Top.i
          /\ StepOf("blockHeapSort") => touched' \subseteq 0..Top.i
          /\ StepOf("buildMaxHeap") => touched' \subseteq 0..((n \div 2) - 1)
         ]_vars

\* a partition of the whole of an array of more than 16 elements has read
\* and written its first, its next to last and its last element
C27_Witness ==
    /\ lastOp = "quickSort"
    /\ n > INSERTION_SORT_THRESHOLD
    /\ Len(frames) = 2
    /\ {0, n - 2, n - 1} \subseteq touched

\* The addresses heapify passes to PREFETCH are those of a[2c + 1] and
\* a[2c + 2] for the left child c, asked for when c + 2 < n only: they are
\* below 2n - 2 and not all within the array.  PREFETCH reads and writes no
\* array element.
PrefetchAddresses ==
    /\ hinted \subseteq 0..(2 * n - 3)
    /\ (hinted # {}) => StepOf("heapify") \/ StepOf("heapSort")
                        \/ StepOf("blockHeapSort") \/ StepOf("buildMaxHeap")

\* the positional numeric arguments from args[i] on, in order: the arguments
\* that are neither an option flag nor the file name after -o, and that are
\* decimal numbers
RECURSIVE PositionalNumbersFrom(_, _)
PositionalNumbersFrom(args, i) ==
    IF i > Len(args) THEN <<>>
    ELSE IF args[i] = "-o" /\ i + 1 <= Len(args)
    THEN PositionalNumbersFrom(args, i + 2)
    ELSE IF IsSignedInteger(ArgChars(args[i]))
    THEN <<args[i]>> \o PositionalNumbersFrom(args, i + 1)
    ELSE PositionalNumbersFrom(args, i + 1)

\* main, run without -f and without a request for help, has taken the
\* corpus from a command line with a number on it
CorpusFromArguments ==
    /\ pc = "snapshot"
    /\ aPtr = "valid"
    /\ ~opts.usingFiles
    /\ Range(argv) \cap {"-f", "-h"} = {}
    /\ "7" \in Range(argv)

\* C28: when the sorter is run without -f, the corpus consists of exactly
\* the positional numeric arguments in command-line order; the option flags
\* on the same command line (--time-only, --bench-time, --block-sort, -o and
\* its file name) are not ingested as corpus values and do not change the
\* corpus length.
C28_CorpusIsPositionalNumbers ==
    CorpusFromArguments =>
        LET numbers == PositionalNumbersFrom(argv, 1)
        IN  /\ n = Len(numbers)
            /\ ArrayToSeq(a, n) = [k \in 1..Len(numbers) |-> atoi(numbers[k])]

\* What main does: every argument after the program name is converted with
\* atoi and stored, the flags and the file name after -o included; a flag
\* gives the corpus value 0.
AllArgumentsIngested ==
    CorpusFromArguments =>
        /\ n = Len(argv)
        /\ ArrayToSeq(a, n) = [k \in 1..Len(argv) |-> atoi(argv[k])]
        /\ \A k \in 1..Len(argv) :
               (argv[k] # "7") => a[k - 1] = 0

(***************************************************************************)
(* genrand_f.c: main after its arguments are parsed.  opts holds count,    *)
(* min and max; original holds numbers[0..count), fileText the characters  *)
(* of the file written, time_seconds the time taken and buffer             *)
(* time_output.  pc is "generate" before main runs, "idle" once the file   *)
(* is closed and "exit" when main returned 1.                              *)
(***************************************************************************)
\* the largest count of the model
MaxCount == 3

\* the largest value rand() returns in the model
MaxRand == 3

\* the values of -min and -max
GenBounds == {-11, -1, 0, 2, 10}

\* the clock ticks between start_time and end_time
GenTicks == {0, 23, 1235}

\* printf("%d", x): the characters written
sprintf_d(x) ==
    IF x < 0 THEN <<"-">> \o DecimalDigits(0 - x, 1) ELSE DecimalDigits(x, 1)

\* the loop writing numbers[i..count) to the file, a space between two
\* numbers
RECURSIVE write_numbers(_, _, _)
write_numbers(numbers, count, i) ==
    IF i < count
    THEN sprintf_d(numbers[i]) \o
         (IF i < count - 1 THEN <<" ">> ELSE <<>>) \o
         write_numbers(numbers, count, i + 1)
    ELSE <<>>

GenerationLabel ==
    <<"\n", "\n", "G", "e", "n", "e", "r", "a", "t", "i", "o", "n", " ",
      "P", "e", "r", "f", "o", "r", "m", "a", "n", "c", "e", ":", " ", "G",
      "e", "n", "e", "r", "a", "t", "e", "d", " ">>

NumbersInLabel ==
    <<" ", "n", "u", "m", "b", "e", "r", "s", " ", "i", "n", " ">>

RangeLabel ==
    <<"\n", "R", "a", "n", "g", "e", ":", " ">>

ToLabel ==
    <<" ", "t", "o", " ">>

\* a footer that starts with the count
genrand_footer_count_first(count, time_output, min, max) ==
    <<"\n", "\n">> \o sprintf_d(count) \o NumbersInLabel \o time_output \o
    RangeLabel \o sprintf_d(min) \o ToLabel \o sprintf_d(max)

\* the two fprintf calls after the numbers: the timing line and the range
\* line
genrand_footer(count, time_output, min, max) ==
    GenerationLabel \o sprintf_d(count) \o NumbersInLabel \o time_output \o
    RangeLabel \o sprintf_d(min) \o ToLabel \o sprintf_d(max)

\* the characters of the file main writes
genrand_file(numbers, count, time_output, min, max) ==
    write_numbers(numbers, count, 0) \o
    genrand_footer(count, time_output, min, max)

\* numbers[i] = min + rand() % (max - min + 1), rand() returning r
genrand_number(min, max, r) == min + (r % (max - min + 1))

GenInit ==
    /\ program = "genrand_f"
    /\ argv = <<>>
    /\ pc = "generate"
    /\ opts \in [count : 0..MaxCount, min : GenBounds, max : GenBounds]
    /\ fileText = <<>>
    /\ a = EmptyArray
    /\ n = 0
    /\ aPtr = "NULL"
    /\ original = EmptyArray
    /\ lastOp = "none"
    /\ calls = 0
    /\ elapsed = 0
    /\ stdout = <<>>
    /\ stderr = <<>>
    /\ outFile = "unopened"
    /\ exitCode = -1
    /\ events = <<>>
    /\ BenchIdle
    /\ RunIdle

\* main of genrand_f.c from the checks of min, max and count to its return;
\* resources_ok is FALSE when the directory, an allocation or the file
\* cannot be had
GenrandMain ==
    /\ pc = "generate"
    /\ \E resources_ok \in BOOLEAN :
       \E rands \in [0..(opts.count - 1) -> 0..MaxRand] :
       \E ticks \in GenTicks : \E tie_up \in BOOLEAN :
          IF opts.min >= opts.max \/ opts.count <= 0 \/ ~resources_ok
          THEN /\ stderr' = <<Item("error")>>
               /\ exitCode' = 1
               /\ pc' = "exit"
               /\ UNCHANGED <<original, fileText, elapsed, time_seconds,
                              buffer, stdout>>
          ELSE LET numbers == [i \in 0..(opts.count - 1) |->
                                  genrand_number(opts.min, opts.max, rands[i])]
                   time_taken == [sec |-> ticks \div CLOCKS_PER_SEC,
                                  nano |-> (ticks % CLOCKS_PER_SEC) *
                                           (1000000000 \div CLOCKS_PER_SEC)]
                   time_output == format_time(time_taken, tie_up)
               IN  /\ original' = numbers
                   /\ elapsed' = ticks
                   /\ time_seconds' = time_taken
                   /\ buffer' = time_output
                   /\ fileText' = genrand_file(numbers, opts.count,
                                               time_output, opts.min,
                                               opts.max)
                   /\ stdout' = <<Item("generated"), Item("saved"),
                                  Item("performance")>>
                   /\ exitCode' = 0
                   /\ pc' = "idle"
                   /\ UNCHANGED stderr
    /\ UNCHANGED <<program, argv, opts, a, n, aPtr, lastOp, calls, outFile,
                   events, bench, runVars>>

\* readIntegers of common.c reads the file genrand_f wrote
ReadGenerated ==
    /\ program = "genrand_f"
    /\ exitCode = 0
    /\ CallReadIntegers

GenNext == GenrandMain \/ ReadGenerated

SpecGen == GenInit /\ [][GenNext]_vars

\* readIntegers returned an array read from a file genrand_f wrote
GeneratedFileRead ==
    /\ program = "genrand_f"
    /\ exitCode = 0
    /\ lastOp = "readIntegers"
    /\ aPtr = "valid"

\* C29: reading a file genrand_f wrote with readIntegers of common.c gives
\* exactly the count generated numbers, in the order generated, each within
\* [min, max]; the two footer lines add no element
C29_GeneratedFileRoundTrip ==
    GeneratedFileRead =>
        /\ n = opts.count
        /\ DOMAIN a = 0..(opts.count - 1)
        /\ \A i \in 0..(opts.count - 1) :
               /\ a[i] = original[i]
               /\ opts.min <= a[i]
               /\ a[i] <= opts.max

\* a file of three numbers, a negative one among them, over a range whose
\* bounds have two digits and a sign, was read back
C29_Witness ==
    /\ GeneratedFileRead
    /\ opts.count = 3
    /\ opts.min = -11
    /\ opts.max = 10
    /\ \E i \in 0..2 : original[i] < 0
    /\ \E i \in 0..2 : original[i] # original[0]
    /\ n = 3

\* the count the reader finds never includes a number of the footer, whose
\* digits are never consumed: the file has more numeric tokens than elements
FooterHasDigits ==
    GeneratedFileRead =>
        \E k \in 1..Len(fileText) :
            /\ k > Len(write_numbers(original, opts.count, 0))
            /\ fileText[k] \in {"0", "1", "2", "3", "4", "5", "6", "7", "8",
                                "9"}

(***************************************************************************)
(* The value measure_sort_time returns, checked under SpecBench.           *)
(***************************************************************************)
\* the trials of invs[1..k] whose sorter exited 0 and printed a time
RECURSIVE TimedTrials(_, _)
TimedTrials(invs, k) ==
    IF k = 0 THEN {}
    ELSE TimedTrials(invs, k - 1) \cup
         (IF FailedRun(invs[k]) THEN {} ELSE {k})

\* the sum of the times of the trials of set
RECURSIVE SumOfTimes(_, _)
SumOfTimes(invs, set) ==
    IF set = {} THEN 0
    ELSE LET k == CHOOSE j \in set : TRUE
         IN  invs[k].outcome.time + SumOfTimes(invs, set \ {k})

\* C30: measure_sort_time returns the mean of the times of all trials whose
\* sorter exited 0 and printed a parseable time, a trial that printed
\* 0.000000000 among them; it returns -1.0 only when there is no such trial;
\* no temporary output file is left behind.
C30_MeanOfTimedTrials ==
    bench.pc = "returned" =>
        LET timed == TimedTrials(bench.invocations, Len(bench.invocations))
        IN  /\ bench.ret = "minus_one" => timed = {}
            /\ bench.ret = "mean" =>
                  /\ bench.successful_runs = Cardinality(timed)
                  /\ bench.total_time = SumOfTimes(bench.invocations, timed)
            /\ bench.temp_files = {}

\* What measure_sort_time returns: the mean of the times above zero, and
\* -1.0 when no trial printed a time above zero; a trial that printed
\* 0.000000000 is left out of the mean like a failed one.  The temporary
\* file of every pass is unlinked.
MeanOfPositiveTimes ==
    bench.pc = "returned" =>
        LET timed == TimedTrials(bench.invocations, Len(bench.invocations))
            positive == {k \in timed : bench.invocations[k].outcome.time > 0}
        IN  /\ bench.ret = "minus_one" <=> positive = {}
            /\ bench.ret = "mean" =>
                  /\ bench.successful_runs = Cardinality(positive)
                  /\ bench.total_time = SumOfTimes(bench.invocations, positive)
            /\ bench.temp_files = {}
=============================================================================
